---- MODULE Spec2Model ----
(***************************************************************************)
(* Live-location engine of the iPick server: the SSEManager class          *)
(* (src/src/SSEManager.ts), the GET /events and POST /location routes that *)
(* drive it (flat body: src/unnamed/part_000, nested body:                 *)
(* src/unnamed/part_002), its two interval timers and the process          *)
(* shutdown hooks.                                                         *)
(*                                                                         *)
(* Time is Date.now() in milliseconds.  A JavaScript value that may be     *)
(* undefined is a sequence: <<>> is undefined, <<v>> is the value v.       *)
(* A JavaScript Map is the sequence of its entries in insertion order.     *)
(* The frames that a step hands to stream.push are kept in pushed until    *)
(* the next step.                                                          *)
(***************************************************************************)
EXTENDS Integers, Sequences, FiniteSets, TLC

VARIABLES
  variant,        \* which index.ts is deployed: flat or nested POST /location
  now,            \* Date.now()
  running,        \* the process has not exited
  locations,      \* SSEManager.locations: Map<string, LocationData>
  clients,        \* SSEManager.clients: keys of Map<Symbol, Readable>, in order
  streams,        \* the Readable created for each Symbol
  nextSymbol,     \* the next Symbol() that GET /events creates
  cleanupDue,     \* expiry of SSEManager.cleanupInterval
  logDue,         \* expiry of SSEManager.logInterval
  pendingWrites,  \* insertMany calls awaiting the database
  locations_db,   \* documents the locations collection has stored
  flushLog,       \* outcome of every settled insertMany, oldest first
  reply,          \* what the last step answered to its caller
  pushed,         \* per Symbol: the frames the last step pushed to its stream
  lastUpsert,     \* the updateLocation call of the last step
  removedStale,   \* device ids the last step logged as removed for staleness
  detached,       \* Symbols the last step deleted from SSEManager.clients
  request,        \* Authorization header of the request the last step handled
  listening,      \* app.listen(port) has been called
  exitCode,       \* the status the process exited with
  streamTimers,   \* legacy GET /events: read() calls and timers of each stream
  armed,          \* the intervals of the manager that have not been cleared
  maxReported,    \* per device: greatest timestamp upserted since its eviction
  users,          \* documents of the users collection, in insertion order
  activeSessions, \* documents of the active_sessions collection
  otps,           \* the otps Map of index.ts: email -> otp
  calls,          \* handlers of the auth routes that are at an await
  createIndex,    \* dbconfig: each createIndex call unsent, pending,
                  \* resolved or rejected
  uniqueIndexes,  \* the unique indexes the users collection has
  otpVerified,    \* emails whose stored otp /verify-otp has accepted
  clientConnect,  \* dbconfig: client.connect() pending, resolved or rejected
  indexLogDue,    \* expiry of the 60 s interval that index.ts itself arms
  aliased         \* per pending insertMany: the device ids whose cached
                  \* object is still the one in the array that was passed

\* the accounts, the sessions and the password reset
authVars == <<users, activeSessions, otps, calls, clientConnect, createIndex,
              uniqueIndexes, otpVerified>>

vars == <<variant, now, running, locations, clients, streams, nextSymbol,
          cleanupDue, logDue, pendingWrites, locations_db, flushLog, reply,
          pushed, lastUpsert, removedStale, detached, request, listening,
          exitCode, streamTimers, armed, maxReported, indexLogDue, aliased,
          authVars>>

----------------------------------------------------------------------------
(* Bounds of the model *)

\* clock steps of TickMs that Spec and SpecApi follow
MaxTicks == 4
\* flush periods that SpecFlush follows
MaxFlushes == 2
\* Symbols that GET /events hands out
MaxClients == 2
\* clock steps by which a report handed to updateLocation may be older than now
MaxLag == 1

\* frames a stalled stream may hold before the model stops feeding it
MaxBuffered == 3
\* streams that the legacy GET /events hands out
MaxLegacyStreams == 1

(* Program constants *)

cleanupIntervalMs == 10000
staleTimeout == 10000
logIntervalMs == 60000
\* legacy GET /events: period of the push interval and delay of the timeout
\* that every read() of the stream arms
legacyPushIntervalMs == 3000
legacyEndTimeoutMs == 5000
\* the index.ts that keeps the cache in a module-level Map: age beyond which
\* its reaper deletes an entry
moduleStaleTimeout == 30000
olderStaleTimeout == 30000
modulePushIntervalMs == 3000

\* resolution of the clock: two clock steps per reaper interval
TickMs == cleanupIntervalMs \div 2
Horizon == MaxTicks * TickMs

----------------------------------------------------------------------------
(* JavaScript values *)

Undefined == <<>>
Some(v) == <<v>>

\* !x for a number and for a string
FalsyNumber(x) == x = Undefined \/ x = Some(0)
FalsyString(x) == x = Undefined \/ x = Some("")

Min2(a, b) == IF a <= b THEN a ELSE b

Range(s) == {s[i] : i \in 1..Len(s)}

RemoveAt(s, i) == SubSeq(s, 1, i - 1) \o SubSeq(s, i + 1, Len(s))

----------------------------------------------------------------------------
(* Request bodies: every well-formed body and every body with one defect *)

DeviceIds == {"bus-12", "bus-7"}
DeviceIdInputs == {Undefined, Some("")} \cup {Some(d) : d \in DeviceIds}
NestedDeviceIdInputs == {Undefined, Some(""), Some("bus-12")}
LatitudeInputs == {Undefined, Some(0), Some(14)}
LongitudeInputs == {Undefined, Some(0), Some(121)}
NameInputs == {Some("Bus")}
BodyNumberInputs == {Some("B-1")}

NoTelemetry ==
  [altitude |-> Undefined, speed |-> Undefined, course |-> Undefined,
   satellites |-> Undefined, hdop |-> Undefined, time |-> Undefined,
   date |-> Undefined]

FullTelemetry ==
  [altitude |-> Some(12), speed |-> Some(40), course |-> Some(90),
   satellites |-> Some(7), hdop |-> Some(1), time |-> Some("08:30:00"),
   date |-> Some("2024-05-01")]

TelemetryInputs == {FullTelemetry}

Defect(x, falsy) == IF falsy THEN 1 ELSE 0

FlatBodies ==
  {b \in [device_id : DeviceIdInputs, latitude : LatitudeInputs,
          longitude : LongitudeInputs, device_name : NameInputs,
          body_number : BodyNumberInputs] :
     Defect(b, FalsyString(b.device_id)) + Defect(b, FalsyNumber(b.latitude))
       + Defect(b, FalsyNumber(b.longitude)) <= 1}

DeviceInfoInputs ==
  {Some(i) : i \in [device_id : NestedDeviceIdInputs, body_number : BodyNumberInputs,
                    device_name : NameInputs]}

GpsDataInputs ==
  {Some([latitude |-> la, longitude |-> lo, telemetry |-> t]) :
     la \in LatitudeInputs, lo \in LongitudeInputs, t \in TelemetryInputs}

NestedBodies ==
  {b \in [device_info : DeviceInfoInputs, gps_data : GpsDataInputs] :
     Defect(b, FalsyString(b.device_info[1].device_id))
       + Defect(b, FalsyNumber(b.gps_data[1].latitude))
       + Defect(b, FalsyNumber(b.gps_data[1].longitude)) <= 1}
  \cup [device_info : {Undefined},
        gps_data : {g \in GpsDataInputs : ~FalsyNumber(g[1].latitude)
                                          /\ ~FalsyNumber(g[1].longitude)}]
  \cup [device_info : {i \in DeviceInfoInputs : ~FalsyString(i[1].device_id)},
        gps_data : {Undefined}]

----------------------------------------------------------------------------
(* Replies *)

NoReply == [code |-> 0, kind |-> "none", detail |-> ""]
StreamReply == [code |-> 200, kind |-> "stream", detail |-> ""]
LocationReceived ==
  [code |-> 200, kind |-> "success", detail |-> "Location received"]
MissingGpsData ==
  [code |-> 200, kind |-> "error", detail |-> "Missing GPS data"]
ValidationError(property) ==
  [code |-> 422, kind |-> "validation", detail |-> property]
Returned(method) == [code |-> 0, kind |-> "returned", detail |-> method]
Threw(method) == [code |-> 0, kind |-> "threw", detail |-> method]

NoUpsert == [called |-> FALSE, report |-> Undefined, replaced |-> Undefined]

----------------------------------------------------------------------------
(* JSON.stringify of the cache and the SSE frame built from it *)

RECURSIVE Join(_, _)
Join(parts, sep) ==
  IF parts = <<>> THEN ""
  ELSE IF Len(parts) = 1 THEN parts[1]
  ELSE parts[1] \o sep \o Join(Tail(parts), sep)

\* a property whose value is undefined is left out by JSON.stringify
JsonNumber(name, x) ==
  IF x = Undefined THEN <<>> ELSE <<"\"" \o name \o "\":" \o ToString(x[1])>>

JsonString(name, x) ==
  IF x = Undefined THEN <<>> ELSE <<"\"" \o name \o "\":\"" \o x[1] \o "\"">>

\* the _id that insertMany has added to an object: its last property, an
\* ObjectId, which JSON.stringify renders as a string
JsonObjectId(d) ==
  IF "_id" \in DOMAIN d
  THEN <<"\"_id\":\"oid-" \o ToString(d._id) \o "\"">> ELSE <<>>

JsonLocation(d) ==
  "{" \o
  Join(JsonString("device_id", d.device_id) \o
       JsonNumber("latitude", d.latitude) \o
       JsonNumber("longitude", d.longitude) \o
       JsonString("device_name", d.device_name) \o
       JsonString("body_number", d.body_number) \o
       JsonNumber("timestamp", Some(d.timestamp)) \o
       JsonNumber("altitude", d.altitude) \o
       JsonNumber("speed", d.speed) \o
       JsonNumber("course", d.course) \o
       JsonNumber("satellites", d.satellites) \o
       JsonNumber("hdop", d.hdop) \o
       JsonString("gps_time", d.gps_time) \o
       JsonString("gps_date", d.gps_date) \o
       JsonObjectId(d), ",")
  \o "}"

JsonStringify(array) ==
  "[" \o Join([i \in 1..Len(array) |-> JsonLocation(array[i])], ",") \o "]"

BroadcastMessage(locs) == "data: " \o JsonStringify(locs) \o "\n\n"

----------------------------------------------------------------------------
(* SSEManager *)

\* faulty variant of MapSet: a list that appends every report
MapSetAppends(locs, d) == Append(locs, d)

\* Map.prototype.set on the cache: an existing key keeps its place, a new
\* key goes last
MapSet(locs, d) ==
  IF \E i \in 1..Len(locs) : locs[i].device_id = d.device_id
  THEN [i \in 1..Len(locs) |->
          IF locs[i].device_id = d.device_id THEN d ELSE locs[i]]
  ELSE Append(locs, d)

MapHas(locs, id) == \E i \in 1..Len(locs) : locs[i].device_id = id

EntriesFor(locs, id) == SelectSeq(locs, LAMBDA e : e.device_id = id)

DeviceSet(locs) == {locs[i].device_id : i \in 1..Len(locs)}

\* faulty variant of IsStale: twice the threshold
IsStaleTwice(d, t) == t - d.timestamp > staleTimeout + staleTimeout

\* faulty variant of IsStale: an entry of exactly the threshold age is stale
IsStaleAtThreshold(d, t) == t - d.timestamp >= staleTimeout

IsStale(d, t) == t - d.timestamp > staleTimeout

\* faulty variant of CleanupStaleLocations: the loop ends at its first delete
CleanupStopsAtFirst(locs, t) ==
  IF \E i \in 1..Len(locs) : IsStale(locs[i], t)
  THEN RemoveAt(locs, CHOOSE i \in 1..Len(locs) :
                        /\ IsStale(locs[i], t)
                        /\ \A j \in 1..(i - 1) : ~IsStale(locs[j], t))
  ELSE locs

\* faulty variant of CleanupStaleLocations: nothing is ever deleted
CleanupStaleLocationsKeepsAll(locs, t) == locs

CleanupStaleLocations(locs, t) == SelectSeq(locs, LAMBDA d : ~IsStale(d, t))

\* the "Removing stale location: ..." lines of one reaper run
RemovedStale(before, after) ==
  LET gone == SelectSeq(before, LAMBDA d : ~MapHas(after, d.device_id))
  IN  [i \in 1..Len(gone) |-> gone[i].device_id]

NoStream ==
  [status |-> "none", throws |-> FALSE, listeners |-> {},
   events |-> <<>>, flowing |-> TRUE, buffered |-> 0]

\* new Readable({ read() { } })
NewReadable ==
  [status |-> "open", throws |-> FALSE, listeners |-> {},
   events |-> <<>>, flowing |-> TRUE, buffered |-> 0]

DestroyedStream ==
  [status |-> "destroyed", throws |-> FALSE, listeners |-> {},
   events |-> <<>>, flowing |-> TRUE, buffered |-> 0]

\* what removeClient leaves of a stream: removeAllListeners and destroy()
\* take the listeners, not the events that an earlier destroy(err) has
\* queued.  A queued 'error' is still emitted; a 'close' alone is emitted to
\* nobody.
Removed(stream) ==
  [DestroyedStream EXCEPT
     !.events = IF "error" \in Range(stream.events) THEN stream.events
                ELSE <<>>]

\* addClient, and the 'close' listener that GET /events adds to the stream
AddClient(cl, st, c) ==
  [clients |-> IF c \in Range(cl) THEN cl ELSE Append(cl, c),
   streams |-> [st EXCEPT ![c].listeners = {"end", "error", "close"}]]

\* faulty variant of removeClient: no "if (stream)" around the calls
RemoveClientUnguarded(cl, st, c) ==
  IF c \in Range(cl)
  THEN [clients |-> SelectSeq(cl, LAMBDA x : x # c),
        streams |-> [st EXCEPT ![c] = Removed(st[c])],
        threw |-> FALSE]
  ELSE [clients |-> cl, streams |-> st, threw |-> TRUE]

\* removeClient: removeAllListeners, destroy, delete.  The 'close' that
\* destroy() schedules finds no listener left, and neither does an 'error'
\* that was queued before; a destroyed Readable hands out nothing that was
\* still buffered.  threw: the call raised.
RemoveClient(cl, st, c) ==
  IF c \in Range(cl)
  THEN [clients |-> SelectSeq(cl, LAMBDA x : x # c),
        streams |-> [st EXCEPT ![c] = Removed(st[c])],
        threw |-> FALSE]
  ELSE [clients |-> cl, streams |-> st, threw |-> FALSE]

\* stream.push(chunk): the chunk goes to the stream's buffer, whatever its
\* length, and stays there until the consumer reads it; a flowing consumer
\* reads it at once
Push(st, c) ==
  [st EXCEPT ![c].buffered = IF st[c].flowing THEN 0 ELSE @ + 1]

RECURSIVE BroadcastLoop(_, _, _, _, _)

\* faulty variant of the loop: the try/catch is around the loop, so the
\* first failed stream ends the pass
BroadcastLoopEndsAtFailure(keys, cl, st, out, message) ==
  IF keys = <<>> THEN [clients |-> cl, streams |-> st, pushed |-> out]
  ELSE LET c == Head(keys) IN
       IF c \notin Range(cl)
       THEN BroadcastLoop(Tail(keys), cl, st, out, message)
       ELSE IF st[c].status # "destroyed" /\ ~st[c].throws
       THEN BroadcastLoop(Tail(keys), cl, Push(st, c),
                          [out EXCEPT ![c] = Append(@, message)], message)
       ELSE LET r == RemoveClient(cl, st, c) IN
            [clients |-> r.clients, streams |-> r.streams, pushed |-> out]

\* the for..of loop of broadcastLocations over the keys still to visit; a
\* key deleted during the loop is not visited.  out: the frames pushed.
BroadcastLoop(keys, cl, st, out, message) ==
  IF keys = <<>> THEN [clients |-> cl, streams |-> st, pushed |-> out]
  ELSE LET c == Head(keys) IN
       IF c \notin Range(cl)
       THEN BroadcastLoop(Tail(keys), cl, st, out, message)
       ELSE IF st[c].status # "destroyed" /\ ~st[c].throws
       THEN BroadcastLoop(Tail(keys), cl, Push(st, c),
                          [out EXCEPT ![c] = Append(@, message)], message)
       ELSE LET r == RemoveClient(cl, st, c) IN
            BroadcastLoop(Tail(keys), r.clients, r.streams, out, message)

NothingPushed(st) == [c \in DOMAIN st |-> <<>>]

\* faulty variant of broadcastLocations: the frame holds the newest entry only
BroadcastsNewestEntry(locs, cl, st) ==
  BroadcastLoop(cl, cl, st, NothingPushed(st),
                BroadcastMessage(SubSeq(locs, Len(locs), Len(locs))))

BroadcastLocations(locs, cl, st) ==
  BroadcastLoop(cl, cl, st, NothingPushed(st), BroadcastMessage(locs))

\* faulty variant of updateLocation: broadcast first, store afterwards
UpdateLocationBroadcastsFirst(locs, cl, st, d) ==
  LET sent == BroadcastLocations(locs, cl, st)
  IN  [locations |-> MapSet(locs, d), clients |-> sent.clients,
       streams |-> sent.streams, pushed |-> sent.pushed]

UpdateLocation(locs, cl, st, d) ==
  LET stored == MapSet(locs, d)
      sent == BroadcastLocations(stored, cl, st)
  IN  [locations |-> stored, clients |-> sent.clients,
       streams |-> sent.streams, pushed |-> sent.pushed]

\* cleanup(): every client still in the map is removed
RECURSIVE RemoveAll(_, _, _)
RemoveAll(keys, cl, st) ==
  IF keys = <<>> THEN [clients |-> cl, streams |-> st]
  ELSE LET r == RemoveClient(cl, st, Head(keys)) IN
       RemoveAll(Tail(keys), r.clients, r.streams)

\* faulty variant of cleanup(): clearInterval(this.cleanupInterval) is missing
CleanupLeavesReaper(cl, st, arm) ==
  LET r == RemoveAll(cl, cl, st)
  IN  [clients |-> r.clients, streams |-> r.streams,
       armed |-> arm \ {"logInterval"}]

\* cleanup(): both intervals are cleared and every client is removed
Cleanup(cl, st, arm) ==
  LET r == RemoveAll(cl, cl, st)
  IN  [clients |-> r.clients, streams |-> r.streams,
       armed |-> arm \ {"cleanupInterval", "logInterval"}]

\* faulty variant of LogLocationsToDB: a write is issued for an empty cache too
LogLocationsToDBAlways(locs, pending, connected) == Append(pending, locs)

\* logLocationsToDB up to its await: Array.from(values) and, if it is not
\* empty, one insertMany of it.  connected: dbconfig has assigned
\* locations_db; while it is undefined the call throws a TypeError and no
\* insertMany is made.
LogLocationsToDB(locs, pending, connected) ==
  IF Len(locs) > 0 /\ connected THEN Append(pending, locs) ELSE pending

\* the array passed to insertMany holds the objects of the cache themselves:
\* for every pending call, the device ids whose cached object is still the
\* one in its array.  ids: the keys that are set anew or deleted.
Dealias(al, ids) == [i \in 1..Len(al) |-> al[i] \ ids]

\* doc._id = id: the object gets the property, as its last one
WithId(d, id) ==
  [f \in DOMAIN d \cup {"_id"} |-> IF f = "_id" THEN id ELSE d[f]]

\* every document of the array has an _id
Prepared(batch) == \A k \in 1..Len(batch) : "_id" \in DOMAIN batch[k]

\* the ObjectIds that the documents carry
Oids(docs) ==
  {docs[k]._id : k \in {j \in 1..Len(docs) : "_id" \in DOMAIN docs[j]}}

\* new ObjectId(): one that no document of the cache, of a pending array or
\* of the collection has
NewObjectId(locs, pending, db) ==
  LET used == {0} \cup Oids(locs) \cup Oids(db)
                \cup UNION {Oids(pending[i]) : i \in 1..Len(pending)}
  IN  1 + CHOOSE n \in used : \A u \in used : u <= n

\* prepareDocs of the driver: each document that has no _id is given a new
\* ObjectId
PrepareDocs(batch, first) ==
  [k \in 1..Len(batch) |->
     IF "_id" \in DOMAIN batch[k] THEN batch[k]
     ELSE WithId(batch[k], first + k - 1)]

\* the document of the array that is the cached object of key id
DocOf(batch, id) ==
  batch[CHOOSE k \in 1..Len(batch) : batch[k].device_id = id]

----------------------------------------------------------------------------
(* POST /location *)

NoResult(rep, locs, cl, st) ==
  [reply |-> rep, locations |-> locs, clients |-> cl, streams |-> st,
   pushed |-> NothingPushed(st), upsert |-> NoUpsert]

Upserted(rep, locs, cl, st, d) ==
  LET r == UpdateLocation(locs, cl, st, d)
      old == EntriesFor(locs, d.device_id)
  IN  [reply |-> rep, locations |-> r.locations, clients |-> r.clients,
       streams |-> r.streams, pushed |-> r.pushed,
       upsert |-> [called |-> TRUE, report |-> Some(d),
                   replaced |-> IF old = <<>> THEN Undefined
                                ELSE Some(old[1].timestamp)]]

\* body: t.Object({...}) of the flat route: the first required property
\* that is absent
FlatBodySchema(body) ==
  IF body.device_id = Undefined THEN Some("/device_id")
  ELSE IF body.latitude = Undefined THEN Some("/latitude")
  ELSE IF body.longitude = Undefined THEN Some("/longitude")
  ELSE IF body.device_name = Undefined THEN Some("/device_name")
  ELSE IF body.body_number = Undefined THEN Some("/body_number")
  ELSE Undefined

\* faulty variant of the flat handler: only device_id is looked at
PostLocationFlatUnchecked(body, t, locs, cl, st) ==
  IF FalsyString(body.device_id)
  THEN NoResult(MissingGpsData, locs, cl, st)
  ELSE Upserted(LocationReceived, locs, cl, st,
         [device_id |-> body.device_id,
          latitude |-> body.latitude,
          longitude |-> body.longitude,
          device_name |-> body.device_name,
          body_number |-> body.body_number,
          timestamp |-> t,
          altitude |-> Undefined, speed |-> Undefined, course |-> Undefined,
          satellites |-> Undefined, hdop |-> Undefined,
          gps_time |-> Undefined, gps_date |-> Undefined])

\* faulty variant of PostLocationFlatHandler: only an absent coordinate is
\* refused
PostLocationFlatAcceptsZero(body, t, locs, cl, st) ==
  IF FalsyString(body.device_id) \/ body.latitude = Undefined
     \/ body.longitude = Undefined
  THEN NoResult(MissingGpsData, locs, cl, st)
  ELSE Upserted(LocationReceived, locs, cl, st,
         [device_id |-> body.device_id,
          latitude |-> body.latitude,
          longitude |-> body.longitude,
          device_name |-> body.device_name,
          body_number |-> body.body_number,
          timestamp |-> t,
          altitude |-> Undefined, speed |-> Undefined, course |-> Undefined,
          satellites |-> Undefined, hdop |-> Undefined,
          gps_time |-> Undefined, gps_date |-> Undefined])

\* the flat handler; its object literal has no telemetry properties, which
\* JSON.stringify renders like undefined ones
PostLocationFlatHandler(body, t, locs, cl, st) ==
  IF FalsyString(body.device_id) \/ FalsyNumber(body.latitude)
     \/ FalsyNumber(body.longitude)
  THEN NoResult(MissingGpsData, locs, cl, st)
  ELSE Upserted(LocationReceived, locs, cl, st,
         [device_id |-> body.device_id,
          latitude |-> body.latitude,
          longitude |-> body.longitude,
          device_name |-> body.device_name,
          body_number |-> body.body_number,
          timestamp |-> t,
          altitude |-> Undefined, speed |-> Undefined, course |-> Undefined,
          satellites |-> Undefined, hdop |-> Undefined,
          gps_time |-> Undefined, gps_date |-> Undefined])

PostLocationFlatRoute(body, t, locs, cl, st) ==
  IF FlatBodySchema(body) # Undefined
  THEN NoResult(ValidationError(FlatBodySchema(body)[1]), locs, cl, st)
  ELSE PostLocationFlatHandler(body, t, locs, cl, st)

\* body: t.Object({...}) of the nested route
NestedBodySchema(body) ==
  IF body.device_info = Undefined THEN Some("/device_info")
  ELSE IF body.device_info[1].device_id = Undefined
       THEN Some("/device_info/device_id")
  ELSE IF body.device_info[1].body_number = Undefined
       THEN Some("/device_info/body_number")
  ELSE IF body.device_info[1].device_name = Undefined
       THEN Some("/device_info/device_name")
  ELSE IF body.gps_data = Undefined THEN Some("/gps_data")
  ELSE IF body.gps_data[1].latitude = Undefined THEN Some("/gps_data/latitude")
  ELSE IF body.gps_data[1].longitude = Undefined
       THEN Some("/gps_data/longitude")
  ELSE Undefined

\* the nested handler
PostLocationNestedHandler(body, t, locs, cl, st) ==
  IF body.device_info = Undefined \/ body.gps_data = Undefined
  THEN NoResult(MissingGpsData, locs, cl, st)
  ELSE LET device_info == body.device_info[1]
           gps_data == body.gps_data[1]
       IN  IF FalsyNumber(gps_data.latitude) \/ FalsyNumber(gps_data.longitude)
           THEN NoResult(MissingGpsData, locs, cl, st)
           ELSE Upserted(LocationReceived, locs, cl, st,
                  [device_id |-> device_info.device_id,
                   latitude |-> gps_data.latitude,
                   longitude |-> gps_data.longitude,
                   device_name |-> device_info.device_name,
                   body_number |-> device_info.body_number,
                   timestamp |-> t,
                   altitude |-> gps_data.telemetry.altitude,
                   speed |-> gps_data.telemetry.speed,
                   course |-> gps_data.telemetry.course,
                   satellites |-> gps_data.telemetry.satellites,
                   hdop |-> gps_data.telemetry.hdop,
                   gps_time |-> gps_data.telemetry.time,
                   gps_date |-> gps_data.telemetry.date])

PostLocationNestedRoute(body, t, locs, cl, st) ==
  IF NestedBodySchema(body) # Undefined
  THEN NoResult(ValidationError(NestedBodySchema(body)[1]), locs, cl, st)
  ELSE PostLocationNestedHandler(body, t, locs, cl, st)

\* body.name of a parsed JSON object
Prop(body, name) == IF name \in DOMAIN body THEN body[name] ELSE Undefined

\* the properties that the flat route reads of a body of any shape
FlatView(body) ==
  [device_id |-> Prop(body, "device_id"), latitude |-> Prop(body, "latitude"),
   longitude |-> Prop(body, "longitude"),
   device_name |-> Prop(body, "device_name"),
   body_number |-> Prop(body, "body_number")]

\* the properties that the nested route reads of a body of any shape
NestedView(body) ==
  [device_info |-> Prop(body, "device_info"),
   gps_data |-> Prop(body, "gps_data")]

----------------------------------------------------------------------------
(* users.ts: the isAuthenticated guard *)

\* an Authorization header is kept as its words, header.split(' ')
AuthorizationInputs ==
  {Undefined, Some(<<"Bearer">>), Some(<<"Basic", "abc">>),
   Some(<<"Bearer", "forged">>), Some(<<"Bearer", "tok-u1">>),
   Some(<<"Bearer", "tok-u2">>), Some(<<"Bearer", "tok-u3">>)}

\* jwt.verify(token): the payload of a token that carries the server's
\* signature, false for any other string
JwtVerify(token) ==
  IF token = "tok-u1" THEN Some([id |-> "u1"])
  ELSE IF token = "tok-u2" THEN Some([id |-> "u2"])
  ELSE IF token = "tok-u3" THEN Some([id |-> "u3"])
  ELSE Undefined

\* the tokens of the activeSessions collection and the ids of the users
\* collection: u1 is logged in, u2 holds a signed token but has logged out,
\* u3 is logged in but its user document has been deleted
ActiveSessionTokens == {"tok-u1", "tok-u3"}
UserIds == {"u1", "u2"}

Unauthorized401 == [code |-> 401, kind |-> "error", detail |-> "Unauthorized"]

\* what beforeHandle returns for a credential it accepts: { user, token },
\* with no status set
Authenticated(id, token) ==
  [code |-> 200, kind |-> "user", detail |-> id, token |-> token]

\* beforeHandle of isAuthenticated.  Every path returns a value, and a value
\* returned by beforeHandle is the response: a refused request is answered
\* 401, an accepted one with the user and the token.
IsAuthenticated(authorization, sessions, userIds) ==
  IF authorization = Undefined THEN Unauthorized401
  ELSE LET words == authorization[1] IN
       IF Len(words) < 2 \/ words[1] # "Bearer" THEN Unauthorized401
       ELSE LET token == words[2]
                payload == JwtVerify(token)
            IN  IF payload = Undefined THEN Unauthorized401
                ELSE IF token \notin sessions THEN Unauthorized401
                ELSE IF payload[1].id \notin userIds THEN Unauthorized401
                ELSE Authenticated(payload[1].id, token)

----------------------------------------------------------------------------
(* State machine *)

ClientIds == 1..MaxClients

CacheKeys == DeviceIdInputs \ {Undefined}

Unreported == 0 - 1

\* the intervals armed while the module of index.ts is evaluated: the two of
\* the manager's constructor and, where index.ts has one besides the
\* manager, its own setInterval, of which no handle is kept
IntervalsArmed ==
  {"cleanupInterval", "logInterval"}
    \cup (IF variant \in {"flat", "nested", "older"} THEN {"indexInterval"}
          ELSE {})

\* the state once the module of index.ts has been evaluated: the manager
\* is constructed, its two timers and the flusher of index.ts are armed
ManagerConstructed ==
  /\ now = 0
  /\ running = TRUE
  /\ locations = <<>>
  /\ clients = <<>>
  /\ streams = [c \in ClientIds |-> NoStream]
  /\ nextSymbol = 1
  /\ cleanupDue = cleanupIntervalMs
  /\ logDue = logIntervalMs
  /\ indexLogDue = logIntervalMs
  /\ pendingWrites = <<>>
  /\ aliased = <<>>
  /\ locations_db = <<>>
  /\ flushLog = <<>>
  /\ reply = NoReply
  /\ pushed = NothingPushed(streams)
  /\ lastUpsert = NoUpsert
  /\ removedStale = <<>>
  /\ detached = <<>>
  /\ request = Undefined
  /\ exitCode = Undefined
  /\ streamTimers = {}
  /\ armed = IntervalsArmed
  /\ maxReported = [k \in CacheKeys |-> Unreported]

\* the state once the legacy or the early index.ts has been evaluated: it
\* constructs no manager and arms no timer (cleanupDue and logDue stand for
\* nothing)
LegacyConstructed ==
  /\ now = 0
  /\ running = TRUE
  /\ locations = <<>>
  /\ clients = <<>>
  /\ streams = [c \in ClientIds |-> NoStream]
  /\ nextSymbol = 1
  /\ cleanupDue = 0
  /\ logDue = 0
  /\ indexLogDue = 0
  /\ pendingWrites = <<>>
  /\ aliased = <<>>
  /\ locations_db = <<>>
  /\ flushLog = <<>>
  /\ reply = NoReply
  /\ pushed = NothingPushed(streams)
  /\ lastUpsert = NoUpsert
  /\ removedStale = <<>>
  /\ detached = <<>>
  /\ request = Undefined
  /\ exitCode = Undefined
  /\ streamTimers = {}
  /\ armed = {}
  /\ maxReported = [k \in CacheKeys |-> Unreported]

\* no request of the auth routes is in flight
MaxCalls == 2
NoCall == [route |-> "none"]

\* the keys of the two unique indexes that dbconfig creates
IndexKeys == {"email", "username"}

\* both createIndex calls in the same state
CreateIndexAll(status) == [k \in IndexKeys |-> status]
NoCalls == [i \in 1..MaxCalls |-> NoCall]

\* an empty database that dbconfig has not connected to yet
DatabaseEmpty ==
  /\ users = <<>>
  /\ activeSessions = <<>>
  /\ otps = <<>>
  /\ calls = NoCalls
  /\ clientConnect = "pending"
  /\ createIndex = CreateIndexAll("unsent")
  /\ uniqueIndexes = {}
  /\ otpVerified = {}

\* an empty database that dbconfig has connected to, with both indexes built
DatabaseConnected ==
  /\ users = <<>>
  /\ activeSessions = <<>>
  /\ otps = <<>>
  /\ calls = NoCalls
  /\ clientConnect = "resolved"
  /\ createIndex = CreateIndexAll("resolved")
  /\ uniqueIndexes = IndexKeys
  /\ otpVerified = {}

\* dbconfig has assigned users, activeSessions and locations_db: until
\* client.connect() has resolved the imported bindings are undefined
Connected == clientConnect = "resolved"

\* the state once the module of index.ts has been evaluated
Constructed ==
  /\ ManagerConstructed
  /\ DatabaseEmpty

\* a server that calls listen(port) while its module is evaluated: the port
\* is open with the connection of dbconfig still pending, or established
Loaded ==
  /\ listening = TRUE
  /\ ManagerConstructed
  /\ DatabaseEmpty \/ DatabaseConnected

\* the server with the port open.  The nested server opens it once
\* dbConnected has resolved, that is with the database connected and both
\* indexes built; the flat server opens it while its module is evaluated.
Init ==
  /\ variant \in {"flat", "nested"}
  /\ Loaded
  /\ variant = "nested" => DatabaseConnected

Reported(r) ==
  IF r.upsert.called
  THEN LET d == r.upsert.report[1] IN
       [maxReported EXCEPT ![d.device_id] =
          IF @ >= d.timestamp THEN @ ELSE d.timestamp]
  ELSE maxReported

\* the keys that a step deleted from the clients map
Detached(before, after) == SelectSeq(before, LAMBDA c : c \notin Range(after))

Handled(r) ==
  /\ reply' = r.reply
  /\ locations' = r.locations
  /\ clients' = r.clients
  /\ streams' = r.streams
  /\ pushed' = r.pushed
  /\ lastUpsert' = r.upsert
  /\ removedStale' = <<>>
  /\ request' = Undefined
  /\ detached' = Detached(clients, r.clients)
  /\ maxReported' = Reported(r)
  /\ aliased' = Dealias(aliased, IF r.upsert.called
                                  THEN {r.upsert.report[1].device_id}
                                  ELSE {})
  /\ UNCHANGED <<authVars, variant, armed, listening, exitCode, streamTimers,
                 now, running, nextSymbol, cleanupDue, logDue, indexLogDue,
                 pendingWrites, locations_db, flushLog>>

PostLocationFlat(body) ==
  /\ running
  /\ listening
  /\ variant = "flat"
  /\ Handled(PostLocationFlatRoute(body, now, locations, clients, streams))

\* faulty variant of the nested route: served before listen(port)
PostLocationNestedBeforeListen(body) ==
  /\ running
  /\ variant = "nested"
  /\ Handled(PostLocationNestedRoute(body, now, locations, clients, streams))

PostLocationNested(body) ==
  /\ running
  /\ listening
  /\ variant = "nested"
  /\ Handled(PostLocationNestedRoute(body, now, locations, clients, streams))

Quiet ==
  /\ reply' = NoReply
  /\ pushed' = NothingPushed(streams)
  /\ lastUpsert' = NoUpsert
  /\ removedStale' = <<>>
  /\ request' = Undefined
  /\ detached' = <<>>

\* faulty variant of GET /events: the key of a closed subscription is taken
\* again instead of a fresh Symbol
GetEventsReusesSymbol(authorization) ==
  /\ running
  /\ listening
  /\ variant \in {"flat", "nested"}
  /\ nextSymbol <= MaxClients
  /\ LET c == IF nextSymbol > 1 /\ 1 \notin Range(clients) THEN 1
              ELSE nextSymbol
         r == AddClient(clients, [streams EXCEPT ![c] = NewReadable], c)
     IN  /\ clients' = r.clients
         /\ streams' = r.streams
  /\ nextSymbol' = nextSymbol + 1
  /\ reply' = StreamReply
  /\ pushed' = NothingPushed(streams)
  /\ lastUpsert' = NoUpsert
  /\ removedStale' = <<>>
  /\ request' = authorization
  /\ detached' = <<>>
  /\ UNCHANGED <<authVars, variant, armed, listening, exitCode, streamTimers,
                 now, running, locations, cleanupDue, logDue, indexLogDue,
                 pendingWrites, aliased, locations_db, flushLog, maxReported>>

\* faulty variant of GetEventsAs: the new subscriber is sent the cache
GetEventsSendsSnapshot(authorization) ==
  /\ running
  /\ listening
  /\ variant \in {"flat", "nested"}
  /\ nextSymbol <= MaxClients
  /\ LET c == nextSymbol
         r == AddClient(clients, [streams EXCEPT ![c] = NewReadable], c)
     IN  /\ clients' = r.clients
         /\ streams' = r.streams
  /\ nextSymbol' = nextSymbol + 1
  /\ reply' = StreamReply
  /\ pushed' = [NothingPushed(streams) EXCEPT
                 ![nextSymbol] = <<BroadcastMessage(locations)>>]
  /\ lastUpsert' = NoUpsert
  /\ removedStale' = <<>>
  /\ request' = authorization
  /\ detached' = <<>>
  /\ UNCHANGED <<authVars, variant, armed, listening, exitCode, streamTimers,
                 now, running, locations, cleanupDue, logDue, indexLogDue,
                 pendingWrites, aliased, locations_db, flushLog, maxReported>>

\* GET /events: a fresh Symbol and Readable, addClient, 'close' -> cleanup;
\* the route has no guard and its handler reads no header
GetEventsAs(authorization) ==
  /\ running
  /\ listening
  /\ variant \in {"flat", "nested", "older"}
  /\ nextSymbol <= MaxClients
  /\ LET c == nextSymbol
         r == AddClient(clients, [streams EXCEPT ![c] = NewReadable], c)
     IN  /\ clients' = r.clients
         /\ streams' = r.streams
  /\ nextSymbol' = nextSymbol + 1
  /\ reply' = StreamReply
  /\ pushed' = NothingPushed(streams)
  /\ lastUpsert' = NoUpsert
  /\ removedStale' = <<>>
  /\ request' = authorization
  /\ detached' = <<>>
  /\ UNCHANGED <<authVars, variant, armed, listening, exitCode, streamTimers,
                 now, running, locations, cleanupDue, logDue, indexLogDue,
                 pendingWrites, aliased, locations_db, flushLog, maxReported>>

\* GET /events from a caller that sends no Authorization header
GetEvents == GetEventsAs(Undefined)

\* the peer goes away: the transport destroys the Readable, with an error
\* or without; the stream emits 'error' (if any) and 'close' on a later turn
\* of the event loop
ClientCloses(c) ==
  /\ running
  /\ streams[c].status = "open"
  /\ \E queued \in {<<"close">>, <<"error", "close">>} :
       streams' = [streams EXCEPT ![c].status = "destroyed",
                                  ![c].throws = FALSE,
                                  ![c].events = queued]
  /\ Quiet
  /\ UNCHANGED <<authVars, variant, armed, listening, exitCode, streamTimers,
                 now, running, locations, clients, nextSymbol, cleanupDue,
                 logDue, indexLogDue, pendingWrites, aliased, locations_db,
                 flushLog, maxReported>>

\* an 'error' event that the stream has no listener for is thrown by emit():
\* the exception is uncaught and the process ends
UncaughtException ==
  /\ running' = FALSE
  /\ listening' = FALSE
  /\ exitCode' = Some(1)

\* the queued event is emitted: it leaves the queue and reaches its listener
\* (each one calls removeClient), or it has none.  The streams that addClient registered
\* have the three listeners; the stream of the legacy GET /events has none.
EmitEvent(c) ==
  /\ running
  /\ streams[c].events # <<>>
  /\ LET e == Head(streams[c].events) IN
     IF e \in streams[c].listeners
     THEN LET r == RemoveClient(clients,
                               [streams EXCEPT ![c].events = Tail(@)], c) IN
          /\ clients' = r.clients
          /\ streams' = r.streams
          /\ detached' = Detached(clients, r.clients)
          /\ UNCHANGED <<running, listening, exitCode>>
     ELSE IF e = "error"
     THEN /\ UncaughtException
          /\ detached' = <<>>
          /\ UNCHANGED <<clients, streams>>
     ELSE /\ streams' = [streams EXCEPT ![c].events = Tail(@)]
          /\ detached' = <<>>
          /\ UNCHANGED <<clients, running, listening, exitCode>>
  /\ reply' = NoReply
  /\ pushed' = NothingPushed(streams)
  /\ lastUpsert' = NoUpsert
  /\ removedStale' = <<>>
  /\ request' = Undefined
  /\ UNCHANGED <<authVars, variant, armed, streamTimers, now, locations,
                 nextSymbol, cleanupDue, logDue, indexLogDue, pendingWrites,
                 aliased, locations_db, flushLog, maxReported>>

\* the sink behind an open stream breaks: the next push to it throws
SinkFails(c) ==
  /\ running
  /\ streams[c].status = "open"
  /\ ~streams[c].throws
  /\ streams' = [streams EXCEPT ![c].throws = TRUE]
  /\ Quiet
  /\ UNCHANGED <<authVars, variant, armed, listening, exitCode, streamTimers,
                 now, running, locations, clients, nextSymbol, cleanupDue,
                 logDue, indexLogDue, pendingWrites, aliased, locations_db,
                 flushLog, maxReported>>

\* the consumer of the Readable (the response writer) stops reading, as it
\* does when the peer no longer takes data; read() {} of the stream is empty
\* and nothing looks at what push() returns
ConsumerStalls(c) ==
  /\ running
  /\ streams[c].status = "open"
  /\ streams[c].flowing
  /\ streams' = [streams EXCEPT ![c].flowing = FALSE]
  /\ Quiet
  /\ UNCHANGED <<authVars, variant, armed, listening, exitCode, streamTimers,
                 now, running, locations, clients, nextSymbol, cleanupDue,
                 logDue, indexLogDue, pendingWrites, aliased, locations_db,
                 flushLog, maxReported>>

\* the consumer reads again and takes everything the stream has buffered
ConsumerReads(c) ==
  /\ running
  /\ streams[c].status = "open"
  /\ ~streams[c].flowing
  /\ streams' = [streams EXCEPT ![c].flowing = TRUE, ![c].buffered = 0]
  /\ Quiet
  /\ UNCHANGED <<authVars, variant, armed, listening, exitCode, streamTimers,
                 now, running, locations, clients, nextSymbol, cleanupDue,
                 logDue, indexLogDue, pendingWrites, aliased, locations_db,
                 flushLog, maxReported>>

\* setInterval(() => this.cleanupStaleLocations(), 10000)
CleanupTimer ==
  /\ running
  /\ "cleanupInterval" \in armed
  /\ now = cleanupDue
  /\ locations' = CleanupStaleLocations(locations, now)
  /\ maxReported' = [k \in CacheKeys |->
                       IF MapHas(locations', k) THEN maxReported[k]
                       ELSE Unreported]
  /\ removedStale' = RemovedStale(locations, locations')
  /\ request' = Undefined
  /\ detached' = <<>>
  /\ cleanupDue' = cleanupDue + cleanupIntervalMs
  /\ reply' = NoReply
  /\ pushed' = NothingPushed(streams)
  /\ lastUpsert' = NoUpsert
  /\ aliased' = Dealias(aliased, DeviceSet(locations) \ DeviceSet(locations'))
  /\ UNCHANGED <<authVars, variant, armed, listening, exitCode, streamTimers,
                 now, running, clients, streams, nextSymbol, logDue,
                 indexLogDue, pendingWrites, locations_db, flushLog>>

\* setInterval(() => this.logLocationsToDB(), 60000).  With locations_db
\* still undefined the insertMany call throws inside the try: the error is
\* logged and no write is made.
LogTimer ==
  /\ running
  /\ "logInterval" \in armed
  /\ now = logDue
  /\ pendingWrites' = LogLocationsToDB(locations, pendingWrites, Connected)
  /\ aliased' = IF Len(pendingWrites') > Len(pendingWrites)
                 THEN Append(aliased, DeviceSet(locations)) ELSE aliased
  /\ logDue' = logDue + logIntervalMs
  /\ Quiet
  /\ UNCHANGED <<authVars, variant, armed, listening, exitCode, streamTimers,
                 now, running, locations, clients, streams, nextSymbol,
                 cleanupDue, indexLogDue, locations_db, flushLog,
                 maxReported>>

\* the setInterval of index.ts, armed next to the manager and not cleared by
\* cleanup(): its callback takes Array.from(locations.values()) of the Map
\* that index.ts declares and never fills, so the array is empty and
\* nothing is written
IndexLogTimer ==
  /\ running
  /\ variant \in {"flat", "nested", "older"}
  /\ "indexInterval" \in armed
  /\ now = indexLogDue
  /\ indexLogDue' = indexLogDue + logIntervalMs
  /\ Quiet
  /\ UNCHANGED <<authVars, variant, armed, listening, exitCode, streamTimers,
                 now, running, locations, clients, streams, nextSymbol,
                 cleanupDue, logDue, pendingWrites, aliased, locations_db,
                 flushLog, maxReported>>

\* insertMany, once the driver has selected a server, gives every document
\* of the array an _id before it sends them.  The documents are the objects
\* that the cache held at the tick: a key that has been neither set again
\* nor deleted since still maps to the same object, which thus gets the
\* _id in the cache too (and in every other pending array that holds it).
InsertManyPrepares(i) ==
  /\ running
  /\ i \in 1..Len(pendingWrites)
  /\ ~Prepared(pendingWrites[i])
  /\ LET docs == PrepareDocs(pendingWrites[i],
                             NewObjectId(locations, pendingWrites,
                                         locations_db))
     IN  /\ pendingWrites' =
              [j \in 1..Len(pendingWrites) |->
                 IF j = i THEN docs
                 ELSE [k \in 1..Len(pendingWrites[j]) |->
                         IF pendingWrites[j][k].device_id
                              \in aliased[i] \cap aliased[j]
                         THEN DocOf(docs, pendingWrites[j][k].device_id)
                         ELSE pendingWrites[j][k]]]
         /\ locations' =
              [k \in 1..Len(locations) |->
                 IF locations[k].device_id \in aliased[i]
                 THEN DocOf(docs, locations[k].device_id)
                 ELSE locations[k]]
  /\ Quiet
  /\ UNCHANGED <<authVars, variant, armed, listening, exitCode, streamTimers,
                 now, running, clients, streams, nextSymbol, cleanupDue,
                 logDue, indexLogDue, aliased, locations_db, flushLog,
                 maxReported>>

\* await locations_db.insertMany(...) resolves: the documents, each with its
\* _id, are in the collection, which holds no two documents of one _id
InsertManyResolves(i) ==
  /\ running
  /\ i \in 1..Len(pendingWrites)
  /\ Prepared(pendingWrites[i])
  /\ Oids(pendingWrites[i]) \cap Oids(locations_db) = {}
  /\ locations_db' = locations_db \o pendingWrites[i]
  /\ pendingWrites' = RemoveAt(pendingWrites, i)
  /\ aliased' = RemoveAt(aliased, i)
  /\ flushLog' = Append(flushLog, "stored")
  /\ Quiet
  /\ UNCHANGED <<authVars, variant, armed, listening, exitCode, streamTimers,
                 now, running, locations, clients, streams, nextSymbol,
                 cleanupDue, logDue, indexLogDue, maxReported>>

\* faulty variant of the rejection: no try/catch, the unhandled rejection
\* ends the process
InsertManyRejectsUncaught(i) ==
  /\ running
  /\ i \in 1..Len(pendingWrites)
  /\ pendingWrites' = RemoveAt(pendingWrites, i)
  /\ aliased' = RemoveAt(aliased, i)
  /\ flushLog' = Append(flushLog, "error")
  /\ running' = FALSE
  /\ Quiet
  /\ UNCHANGED <<authVars, variant, armed, listening, exitCode, streamTimers,
                 now, locations, clients, streams, nextSymbol, cleanupDue,
                 logDue, indexLogDue, locations_db, maxReported>>

\* ... or rejects, before the driver has prepared the documents or after:
\* caught and logged by logLocationsToDB.  An _id that the documents were
\* given stays on them.
InsertManyRejects(i) ==
  /\ running
  /\ i \in 1..Len(pendingWrites)
  /\ pendingWrites' = RemoveAt(pendingWrites, i)
  /\ aliased' = RemoveAt(aliased, i)
  /\ flushLog' = Append(flushLog, "error")
  /\ Quiet
  /\ UNCHANGED <<authVars, variant, armed, listening, exitCode, streamTimers,
                 now, running, locations, clients, streams, nextSymbol,
                 cleanupDue, logDue, indexLogDue, locations_db, maxReported>>

\* the expiry of the interval of index.ts, where it is armed
IndexDues == IF "indexInterval" \in armed THEN {indexLogDue} ELSE {}

\* the least of a set of times
Earliest(times) == CHOOSE t \in times : \A u \in times : t <= u

\* the clock moves on by TickMs, at most up to the next timer expiry
Tick ==
  /\ running
  /\ now < Horizon
  /\ \A due \in {cleanupDue, logDue} \cup IndexDues : now < due
  /\ now' = Earliest({now + TickMs, cleanupDue, logDue} \cup IndexDues)
  /\ Quiet
  /\ UNCHANGED <<authVars, variant, armed, listening, exitCode, streamTimers,
                 running, locations, clients, streams, nextSymbol, cleanupDue,
                 logDue, indexLogDue, pendingWrites, aliased, locations_db,
                 flushLog, maxReported>>

\* the times of the cache read on a clock that has been set back by shift
Rebased(locs, shift) ==
  [i \in 1..Len(locs) |-> [locs[i] EXCEPT !.timestamp = @ - shift]]

\* the insertMany calls that logLocationsToDB has made
WritesIssued == Len(flushLog) + Len(pendingWrites)

\* the times of documents handed to the database, read on a clock that has
\* been set back by shift.  The server never reads them again: a time that
\* lies more than a flush period before the start of the clock is read as
\* that instant.
RebasedWritten(docs, shift) ==
  [i \in 1..Len(docs) |->
     [docs[i] EXCEPT !.timestamp = IF @ - shift < 0 - logIntervalMs
                                   THEN 0 - logIntervalMs ELSE @ - shift]]

\* the clock moves on by TickMs, at most up to the next expiry of an
\* interval, without end.  Nothing in the server depends on the absolute
\* time, only on differences of times, so past Horizon every time of the
\* state (the clock, the expiries, the times of the cached and of the
\* written documents) is read one reaper period earlier.
TickLive ==
  /\ running
  /\ \A due \in {cleanupDue, logDue} \cup IndexDues : now < due
  /\ LET t == Earliest({now + TickMs, cleanupDue, logDue} \cup IndexDues)
         shift == IF t > Horizon THEN cleanupIntervalMs ELSE 0
     IN  /\ now' = t - shift
         /\ cleanupDue' = cleanupDue - shift
         /\ logDue' = logDue - shift
         /\ indexLogDue' = indexLogDue - shift
         /\ locations' = Rebased(locations, shift)
         /\ pendingWrites' = [i \in 1..Len(pendingWrites) |->
                                RebasedWritten(pendingWrites[i], shift)]
         /\ locations_db' = RebasedWritten(locations_db, shift)
         /\ maxReported' = [k \in CacheKeys |->
                              IF maxReported[k] = Unreported THEN Unreported
                              ELSE maxReported[k] - shift]
  /\ Quiet
  /\ UNCHANGED <<authVars, variant, armed, listening, exitCode, streamTimers,
                 running, clients, streams, nextSymbol, aliased, flushLog>>

\* the clock moves on to the next timer expiry
TickToTimer ==
  /\ running
  /\ logDue <= MaxFlushes * logIntervalMs
  /\ \A due \in {cleanupDue, logDue} \cup IndexDues : now < due
  /\ now' = Earliest({cleanupDue, logDue} \cup IndexDues)
  /\ Quiet
  /\ UNCHANGED <<authVars, variant, armed, listening, exitCode, streamTimers,
                 running, locations, clients, streams, nextSymbol, cleanupDue,
                 logDue, indexLogDue, pendingWrites, aliased, locations_db,
                 flushLog, maxReported>>

\* client.connect() rejects.  The nested index.ts waits for dbConnected and
\* its catch calls process.exit(1), as does the catch of the dbconfig that
\* the legacy index.ts imports.  Elsewhere nothing waits for dbConnected, the
\* rejection is unhandled and the runtime exits with status 1 or reports it
\* and goes on, with the collections undefined for good.
ConnectRejects ==
  /\ running
  /\ clientConnect = "pending"
  /\ clientConnect' = "rejected"
  /\ \/ /\ running' = FALSE
        /\ listening' = FALSE
        /\ exitCode' = Some(1)
     \/ /\ variant \notin {"nested", "legacy"}
        /\ UNCHANGED <<running, listening, exitCode>>
  /\ Quiet
  /\ UNCHANGED <<users, activeSessions, otps, calls, createIndex,
                 uniqueIndexes, otpVerified, variant, armed, streamTimers,
                 now, locations, clients, streams, nextSymbol, cleanupDue,
                 logDue, indexLogDue, pendingWrites, aliased, locations_db,
                 flushLog, maxReported>>

\* SIGTERM / SIGINT: sseManager.cleanup(); process.exit(0).  The handlers
\* are registered after listen(port).
Shutdown ==
  /\ running
  /\ listening
  /\ LET r == Cleanup(clients, streams, armed) IN
     /\ clients' = r.clients
     /\ streams' = r.streams
     /\ armed' = r.armed
     /\ detached' = Detached(clients, r.clients)
  /\ running' = FALSE
  /\ listening' = FALSE
  /\ exitCode' = Some(0)
  /\ reply' = NoReply
  /\ pushed' = NothingPushed(streams)
  /\ lastUpsert' = NoUpsert
  /\ removedStale' = <<>>
  /\ request' = Undefined
  /\ UNCHANGED <<authVars, variant, streamTimers, now, locations, nextSymbol,
                 cleanupDue, logDue, indexLogDue, pendingWrites, aliased,
                 locations_db, flushLog, maxReported>>

(* The public methods of the exported class, called directly *)

StampInputs(t) == {s \in {t - k * TickMs : k \in 0..MaxLag} : s >= 0}

ApiReports(t) ==
  [device_id : {Some("bus-12")}, latitude : {Some(14)},
   longitude : {Some(121)}, device_name : NameInputs,
   body_number : BodyNumberInputs, timestamp : StampInputs(t),
   altitude : {Undefined}, speed : {Undefined}, course : {Undefined},
   satellites : {Undefined}, hdop : {Undefined}, gps_time : {Undefined},
   gps_date : {Undefined}]

CallUpdateLocation(d) ==
  /\ running
  /\ Handled(Upserted(Returned("updateLocation"), locations, clients,
                      streams, d))

CallRemoveClient(c) ==
  /\ running
  /\ LET r == RemoveClient(clients, streams, c) IN
     /\ clients' = r.clients
     /\ streams' = r.streams
     /\ reply' = IF r.threw THEN Threw("removeClient")
                 ELSE Returned("removeClient")
     /\ detached' = Detached(clients, r.clients)
  /\ pushed' = NothingPushed(streams)
  /\ lastUpsert' = NoUpsert
  /\ removedStale' = <<>>
  /\ request' = Undefined
  /\ UNCHANGED <<authVars, variant, armed, listening, exitCode, streamTimers,
                 now, running, locations, nextSymbol, cleanupDue, logDue,
                 indexLogDue, pendingWrites, aliased, locations_db, flushLog,
                 maxReported>>

(* The legacy index.ts: reports go to the database, GET /events polls it *)

LegacyBodies ==
  {b \in [device_id : NestedDeviceIdInputs, latitude : LatitudeInputs,
          longitude : LongitudeInputs] :
     Defect(b, FalsyString(b.device_id)) + Defect(b, FalsyNumber(b.latitude))
       + Defect(b, FalsyNumber(b.longitude)) <= 1}

LegacyBodySchema(body) ==
  IF body.device_id = Undefined THEN Some("/device_id")
  ELSE IF body.latitude = Undefined THEN Some("/latitude")
  ELSE IF body.longitude = Undefined THEN Some("/longitude")
  ELSE Undefined

\* locations.updateOne({ device_id }, { $set: locationData }, { upsert: true })
LegacyUpdateOne(db, doc) ==
  IF \E i \in 1..Len(db) : db[i].device_id = doc.device_id
  THEN LET i == CHOOSE j \in 1..Len(db) :
                  /\ db[j].device_id = doc.device_id
                  /\ \A k \in 1..(j - 1) : db[k].device_id # doc.device_id
       IN  [db EXCEPT ![i] = [_id |-> db[i]._id, device_id |-> doc.device_id,
                              latitude |-> doc.latitude,
                              longitude |-> doc.longitude,
                              timestamp |-> doc.timestamp]]
  ELSE Append(db, [_id |-> Some("oid-" \o ToString(Len(db) + 1)),
                   device_id |-> doc.device_id, latitude |-> doc.latitude,
                   longitude |-> doc.longitude, timestamp |-> doc.timestamp])

\* the legacy POST /location up to its await: the body is checked and
\* locationData gets its timestamp.  update: the document that updateOne
\* is called with.
PostLocationLegacyRoute(body, t) ==
  IF LegacyBodySchema(body) # Undefined
  THEN [reply |-> ValidationError(LegacyBodySchema(body)[1]),
        update |-> Undefined]
  ELSE IF FalsyString(body.device_id) \/ FalsyNumber(body.latitude)
          \/ FalsyNumber(body.longitude)
  THEN [reply |-> MissingGpsData, update |-> Undefined]
  ELSE [reply |-> NoReply,
        update |-> Some([device_id |-> body.device_id,
                         latitude |-> body.latitude,
                         longitude |-> body.longitude,
                         timestamp |-> t])]

\* what the caller gets when the awaited updateOne rejects: the handler
\* throws and the framework answers with status 500
UpdateOneRejected ==
  [code |-> 500, kind |-> "error", detail |-> "updateOne rejected"]

Pad(n, width) ==
  IF width = 3 /\ n < 10 THEN "00" \o ToString(n)
  ELSE IF width = 3 /\ n < 100 THEN "0" \o ToString(n)
  ELSE IF width = 2 /\ n < 10 THEN "0" \o ToString(n)
  ELSE ToString(n)

\* Date.prototype.toJSON of a time within the first minute of the clock
IsoString(ms) ==
  "1970-01-01T00:00:" \o Pad(ms \div 1000, 2) \o "." \o Pad(ms % 1000, 3)
    \o "Z"

\* `data: ${JSON.stringify(locationData)}\n\n` of one stored document
LegacyFrame(doc) ==
  "data: {" \o
  Join(JsonString("_id", doc._id) \o
       JsonString("device_id", doc.device_id) \o
       JsonNumber("latitude", doc.latitude) \o
       JsonNumber("longitude", doc.longitude) \o
       JsonString("timestamp", Some(IsoString(doc.timestamp))), ",")
  \o "}\n\n"

\* locations.updateOne / locations.find before dbconfig has assigned
\* locations: a TypeError, which the framework answers with status 500
LocationsUndefined ==
  [code |-> 500, kind |-> "error", detail |-> "undefined is not an object"]

PostLocationLegacy(i, body) ==
  /\ running
  /\ listening
  /\ variant = "legacy"
  /\ calls[i] = NoCall
  /\ LET r == PostLocationLegacyRoute(body, now) IN
     IF r.update # Undefined /\ ~Connected
     THEN /\ reply' = LocationsUndefined
          /\ UNCHANGED calls
     ELSE /\ reply' = r.reply
          /\ calls' = IF r.update = Undefined THEN calls
                      ELSE [calls EXCEPT ![i] = [route |-> "location",
                                                 pc |-> "updateOne",
                                                 doc |-> r.update[1]]]
  /\ pushed' = NothingPushed(streams)
  /\ lastUpsert' = NoUpsert
  /\ removedStale' = <<>>
  /\ request' = Undefined
  /\ detached' = <<>>
  /\ UNCHANGED <<users, activeSessions, otps, clientConnect, createIndex,
                 uniqueIndexes, otpVerified, variant, armed, listening,
                 exitCode, streamTimers, now, running, locations, clients,
                 streams, nextSymbol, cleanupDue, logDue, indexLogDue,
                 pendingWrites, aliased, locations_db, flushLog, maxReported>>

\* the database settles the updateOne of a waiting POST /location: the
\* document is written, or the call is rejected and nothing is written
UpdateOneLegacy(i) ==
  /\ running
  /\ calls[i] # NoCall
  /\ calls[i].route = "location"
  /\ calls[i].pc = "updateOne"
  /\ \/ /\ locations_db' = LegacyUpdateOne(locations_db, calls[i].doc)
        /\ calls' = [calls EXCEPT ![i].pc = "resolved"]
     \/ /\ calls' = [calls EXCEPT ![i].pc = "rejected"]
        /\ UNCHANGED locations_db
  /\ Quiet
  /\ UNCHANGED <<users, activeSessions, otps, clientConnect, createIndex,
                 uniqueIndexes, otpVerified, variant, armed, listening,
                 exitCode, streamTimers, now, running, locations, clients,
                 streams, nextSymbol, cleanupDue, logDue, indexLogDue,
                 pendingWrites, aliased, flushLog, maxReported>>

\* the handler goes on after its await: the forEach over the clients set,
\* which is never added to, sends nothing, and the caller is answered; a
\* rejected updateOne is thrown out of the handler
PostLocationLegacyResumes(i) ==
  /\ running
  /\ calls[i] # NoCall
  /\ calls[i].route = "location"
  /\ calls[i].pc \in {"resolved", "rejected"}
  /\ reply' = IF calls[i].pc = "resolved" THEN LocationReceived
              ELSE UpdateOneRejected
  /\ calls' = [calls EXCEPT ![i] = NoCall]
  /\ pushed' = NothingPushed(streams)
  /\ lastUpsert' = NoUpsert
  /\ removedStale' = <<>>
  /\ request' = Undefined
  /\ detached' = <<>>
  /\ UNCHANGED <<users, activeSessions, otps, clientConnect, createIndex,
                 uniqueIndexes, otpVerified, variant, armed, listening,
                 exitCode, streamTimers, now, running, locations, clients,
                 streams, nextSymbol, cleanupDue, logDue, indexLogDue,
                 pendingWrites, aliased, locations_db, flushLog, maxReported>>

\* setInterval, setTimeout and read() hand out a new timer or call each
\* time: those of a stream that agree in kind and time are told apart by n,
\* the least number that none of them has
FreshN(timers, c, kinds, t) ==
  CHOOSE k \in 1..(Cardinality(timers) + 1) :
    /\ ~\E x \in timers : /\ x.stream = c /\ x.kind \in kinds
                           /\ x.armed = t /\ x.n = k
    /\ \A j \in 1..(k - 1) :
         \E x \in timers : /\ x.stream = c /\ x.kind \in kinds
                           /\ x.armed = t /\ x.n = j

\* the call of read() that the stream makes once it has a consumer, and
\* again after a push
ReadCall(timers, c, t) ==
  [stream |-> c, kind |-> "read", due |-> t, armed |-> t,
   n |-> FreshN(timers, c, {"read"}, t)]

\* the legacy GET /events returns a new Readable, which the response writer
\* starts to read
GetEventsLegacy ==
  /\ running
  /\ listening
  /\ variant = "legacy"
  /\ nextSymbol <= MaxLegacyStreams
  /\ streams' = [streams EXCEPT ![nextSymbol] = NewReadable]
  /\ streamTimers' = streamTimers \cup
                       {ReadCall(streamTimers, nextSymbol, now)}
  /\ nextSymbol' = nextSymbol + 1
  /\ reply' = StreamReply
  /\ pushed' = NothingPushed(streams)
  /\ lastUpsert' = NoUpsert
  /\ removedStale' = <<>>
  /\ request' = Undefined
  /\ detached' = <<>>
  /\ UNCHANGED <<authVars, variant, armed, listening, exitCode, now, running,
                 locations, clients, cleanupDue, logDue, indexLogDue,
                 pendingWrites, aliased, locations_db, flushLog, maxReported>>

\* read() of the legacy stream: every call arms one interval and one timeout
ReadLegacy(tm) ==
  /\ running
  /\ tm \in streamTimers
  /\ tm.kind = "read"
  /\ LET k == FreshN(streamTimers, tm.stream, {"interval", "timeout"}, now)
     IN  streamTimers' = (streamTimers \ {tm}) \cup
           IF streams[tm.stream].status = "open"
           THEN {[stream |-> tm.stream, kind |-> "interval",
                  due |-> now + legacyPushIntervalMs, armed |-> now,
                  n |-> k],
                 [stream |-> tm.stream, kind |-> "timeout",
                  due |-> now + legacyEndTimeoutMs, armed |-> now, n |-> k]}
           ELSE {}
  /\ Quiet
  /\ UNCHANGED <<authVars, variant, armed, listening, exitCode, now, running,
                 locations, clients, streams, nextSymbol, cleanupDue, logDue,
                 indexLogDue, pendingWrites, aliased, locations_db, flushLog,
                 maxReported>>

\* the interval fires: its async callback calls locations.find().toArray()
\* and waits for the answer.  With locations still undefined the call throws
\* a TypeError: the promise of the callback rejects, nothing handles it, and
\* the runtime ends the process with status 1 or reports it and goes on.
IntervalLegacy(tm) ==
  /\ running
  /\ tm \in streamTimers
  /\ tm.kind = "interval"
  /\ tm.due = now
  /\ IF Connected
     THEN /\ streamTimers' = (streamTimers \ {tm}) \cup
               {[tm EXCEPT !.due = now + legacyPushIntervalMs],
                [stream |-> tm.stream, kind |-> "find", due |-> now,
                 armed |-> tm.armed, n |-> tm.n, docs |-> Undefined]}
          /\ UNCHANGED <<running, listening, exitCode>>
     ELSE /\ streamTimers' = (streamTimers \ {tm}) \cup
               {[tm EXCEPT !.due = now + legacyPushIntervalMs]}
          /\ \/ UncaughtException
             \/ UNCHANGED <<running, listening, exitCode>>
  /\ Quiet
  /\ UNCHANGED <<authVars, variant, armed, now, locations, clients, streams,
                 nextSymbol, cleanupDue, logDue, indexLogDue, pendingWrites,
                 aliased, locations_db, flushLog, maxReported>>

\* the database answers a waiting find with the documents it holds
FindLegacy(tm) ==
  /\ running
  /\ tm \in streamTimers
  /\ tm.kind = "find"
  /\ tm.docs = Undefined
  /\ streamTimers' = (streamTimers \ {tm}) \cup
                       {[tm EXCEPT !.docs = Some(locations_db)]}
  /\ Quiet
  /\ UNCHANGED <<authVars, variant, armed, listening, exitCode,
                 now, running, locations, clients, streams, nextSymbol,
                 cleanupDue, logDue, indexLogDue, pendingWrites, aliased,
                 locations_db, flushLog, maxReported>>

\* ... or the find is rejected: the await throws in the interval callback,
\* which pushes nothing; the rejection of its promise is unhandled
FindRejectsLegacy(tm) ==
  /\ running
  /\ tm \in streamTimers
  /\ tm.kind = "find"
  /\ tm.docs = Undefined
  /\ streamTimers' = streamTimers \ {tm}
  /\ \/ UncaughtException
     \/ UNCHANGED <<running, listening, exitCode>>
  /\ Quiet
  /\ UNCHANGED <<authVars, variant, armed, now, locations, clients, streams,
                 nextSymbol, cleanupDue, logDue, indexLogDue, pendingWrites,
                 aliased, locations_db, flushLog, maxReported>>

\* the interval callback goes on after its await: one frame per document
\* found.  A push makes the stream call read() again.  A push after the
\* stream was ended is refused: without effect if the ended stream has been
\* destroyed by then, with an error otherwise, which no listener takes and
\* which ends the process.
ForEachLegacy(tm) ==
  /\ running
  /\ tm \in streamTimers
  /\ tm.kind = "find"
  /\ tm.docs # Undefined
  /\ LET c == tm.stream
         docs == tm.docs[1]
         frames == [i \in 1..Len(docs) |-> LegacyFrame(docs[i])]
         rest == streamTimers \ {tm}
     IN  \/ /\ streams[c].status = "open"
            /\ pushed' = [NothingPushed(streams) EXCEPT ![c] = frames]
            /\ streamTimers' = rest \cup
                 IF frames # <<>> THEN {ReadCall(rest, c, now)} ELSE {}
            /\ UNCHANGED <<streams, running, listening, exitCode>>
         \/ /\ streams[c].status = "ended"
            /\ frames # <<>>
            /\ pushed' = NothingPushed(streams)
            /\ streams' = [streams EXCEPT ![c] = DestroyedStream]
            /\ \/ /\ streamTimers' = rest
                  /\ UNCHANGED <<running, listening, exitCode>>
               \/ /\ UncaughtException
                  /\ UNCHANGED streamTimers
         \/ /\ \/ streams[c].status = "destroyed"
               \/ streams[c].status = "ended" /\ frames = <<>>
            /\ pushed' = NothingPushed(streams)
            /\ streamTimers' = rest
            /\ UNCHANGED <<streams, running, listening, exitCode>>
  /\ reply' = NoReply
  /\ lastUpsert' = NoUpsert
  /\ removedStale' = <<>>
  /\ request' = Undefined
  /\ detached' = <<>>
  /\ UNCHANGED <<authVars, variant, armed, now, locations, clients,
                 nextSymbol, cleanupDue, logDue, indexLogDue, pendingWrites,
                 aliased, locations_db, flushLog, maxReported>>

\* the timeout callback: clearInterval(interval); this.push(null)
TimeoutLegacy(tm) ==
  /\ running
  /\ tm \in streamTimers
  /\ tm.kind = "timeout"
  /\ tm.due = now
  /\ streamTimers' = {x \in streamTimers :
                        /\ x # tm
                        /\ ~(/\ x.kind = "interval" /\ x.stream = tm.stream
                             /\ x.armed = tm.armed /\ x.n = tm.n)}
  /\ streams' = [streams EXCEPT ![tm.stream].status =
                   IF @ = "open" THEN "ended" ELSE @]
  /\ Quiet
  /\ UNCHANGED <<authVars, variant, armed, listening, exitCode, now, running,
                 locations, clients, nextSymbol, cleanupDue, logDue,
                 indexLogDue, pendingWrites, aliased, locations_db, flushLog,
                 maxReported>>

LegacyHorizon == Horizon \div 2

\* the timers and read() calls that have their time; a find that waits for
\* the database has none
Timed(timers) == {tm \in timers : tm.kind # "find"}

\* the clock moves on to the next expiry of a stream timer, by TickMs at most
TickLegacy ==
  /\ running
  /\ now < LegacyHorizon
  /\ \A tm \in Timed(streamTimers) : tm.due > now
  /\ now' = CHOOSE t \in {now + TickMs} \cup
                          {tm.due : tm \in Timed(streamTimers)} :
              \A u \in {now + TickMs} \cup
                       {tm.due : tm \in Timed(streamTimers)} : t <= u
  /\ Quiet
  /\ UNCHANGED <<authVars, variant, armed, listening, exitCode, streamTimers,
                 running, locations, clients, streams, nextSymbol, cleanupDue,
                 logDue, indexLogDue, pendingWrites, aliased, locations_db,
                 flushLog, maxReported>>

(* The index.ts whose SSEManager keeps an entry for 30 s *)

\* its POST /location: the flat body without device_name and body_number
PostLocationOlderRoute(body, t, locs, cl, st) ==
  IF LegacyBodySchema(body) # Undefined
  THEN NoResult(ValidationError(LegacyBodySchema(body)[1]), locs, cl, st)
  ELSE IF FalsyString(body.device_id) \/ FalsyNumber(body.latitude)
          \/ FalsyNumber(body.longitude)
  THEN NoResult(MissingGpsData, locs, cl, st)
  ELSE Upserted(LocationReceived, locs, cl, st,
         [device_id |-> body.device_id,
          latitude |-> body.latitude,
          longitude |-> body.longitude,
          device_name |-> Undefined, body_number |-> Undefined,
          timestamp |-> t,
          altitude |-> Undefined, speed |-> Undefined, course |-> Undefined,
          satellites |-> Undefined, hdop |-> Undefined,
          gps_time |-> Undefined, gps_date |-> Undefined])

PostLocationOlder(body) ==
  /\ running
  /\ listening
  /\ variant = "older"
  /\ Handled(PostLocationOlderRoute(body, now, locations, clients, streams))

\* cleanupStaleLocations of that manager
OlderCleanupStaleLocations(locs, t) ==
  SelectSeq(locs, LAMBDA d : ~(t - d.timestamp > olderStaleTimeout))

OlderCleanupTimer ==
  /\ running
  /\ variant = "older"
  /\ "cleanupInterval" \in armed
  /\ now = cleanupDue
  /\ locations' = OlderCleanupStaleLocations(locations, now)
  /\ maxReported' = [k \in CacheKeys |->
                       IF MapHas(locations', k) THEN maxReported[k]
                       ELSE Unreported]
  /\ removedStale' = RemovedStale(locations, locations')
  /\ request' = Undefined
  /\ detached' = <<>>
  /\ cleanupDue' = cleanupDue + cleanupIntervalMs
  /\ reply' = NoReply
  /\ pushed' = NothingPushed(streams)
  /\ lastUpsert' = NoUpsert
  /\ aliased' = Dealias(aliased, DeviceSet(locations) \ DeviceSet(locations'))
  /\ UNCHANGED <<authVars, variant, armed, listening, exitCode, streamTimers,
                 now, running, clients, streams, nextSymbol, logDue,
                 indexLogDue, pendingWrites, locations_db, flushLog>>

(* The index.ts whose cache, reaper and flusher are at module level *)

InternalServerError ==
  [code |-> 500, kind |-> "error", detail |-> "client.send is not a function"]

\* its POST /location: the report is stored, then clients.forEach calls
\* client.send on the Symbols of the clients set, which throws if there is one
PostLocationModuleRoute(body, t, locs, cl) ==
  IF LegacyBodySchema(body) # Undefined
  THEN [reply |-> ValidationError(LegacyBodySchema(body)[1]),
        locations |-> locs]
  ELSE IF FalsyString(body.device_id) \/ FalsyNumber(body.latitude)
          \/ FalsyNumber(body.longitude)
  THEN [reply |-> MissingGpsData, locations |-> locs]
  ELSE [reply |-> IF cl = <<>> THEN LocationReceived
                  ELSE InternalServerError,
        locations |-> MapSet(locs, [device_id |-> body.device_id,
                                    latitude |-> body.latitude,
                                    longitude |-> body.longitude,
                                    timestamp |-> t])]

PostLocationModule(body) ==
  /\ running
  /\ listening
  /\ variant = "module"
  /\ LET r == PostLocationModuleRoute(body, now, locations, clients) IN
     /\ reply' = r.reply
     /\ locations' = r.locations
     /\ aliased' = Dealias(aliased,
                           IF r.reply \in {LocationReceived,
                                           InternalServerError}
                           THEN {body.device_id} ELSE {})
  /\ pushed' = NothingPushed(streams)
  /\ lastUpsert' = NoUpsert
  /\ removedStale' = <<>>
  /\ request' = Undefined
  /\ detached' = <<>>
  /\ UNCHANGED <<authVars, variant, armed, listening, exitCode, streamTimers,
                 now, running, clients, streams, nextSymbol, cleanupDue,
                 logDue, indexLogDue, pendingWrites, locations_db, flushLog,
                 maxReported>>

\* the module-level reaper: entries older than 30 s are deleted
ModuleCleanupTimer ==
  /\ running
  /\ variant = "module"
  /\ now = cleanupDue
  /\ locations' = SelectSeq(locations,
                            LAMBDA d : ~(now - d.timestamp > moduleStaleTimeout))
  /\ cleanupDue' = cleanupDue + cleanupIntervalMs
  /\ aliased' = Dealias(aliased, DeviceSet(locations) \ DeviceSet(locations'))
  /\ Quiet
  /\ UNCHANGED <<authVars, variant, armed, listening, exitCode, streamTimers,
                 now, running, clients, streams, nextSymbol, logDue,
                 indexLogDue, pendingWrites, locations_db, flushLog,
                 maxReported>>

\* the module-level flusher: insertMany of the cached values, awaited in the
\* async interval callback with no try/catch.  With locations_db still
\* undefined the call throws a TypeError and no insertMany is made: the
\* promise of the callback rejects and the rejection is unhandled, so the
\* runtime ends the process with status 1 or reports it and goes on.
ModuleLogTimer ==
  /\ running
  /\ variant = "module"
  /\ now = logDue
  /\ pendingWrites' = LogLocationsToDB(locations, pendingWrites, Connected)
  /\ aliased' = IF Len(pendingWrites') > Len(pendingWrites)
                 THEN Append(aliased, DeviceSet(locations)) ELSE aliased
  /\ logDue' = logDue + logIntervalMs
  /\ \/ /\ Len(locations) > 0
        /\ ~Connected
        /\ UncaughtException
     \/ UNCHANGED <<running, listening, exitCode>>
  /\ Quiet
  /\ UNCHANGED <<authVars, variant, armed, streamTimers, now, locations,
                 clients, streams, nextSymbol, cleanupDue, indexLogDue,
                 locations_db, flushLog, maxReported>>

\* insertMany rejects in the module-level flusher: nothing catches it, the
\* promise of the callback rejects and the rejection is unhandled.  The
\* runtime then either ends the process with status 1 or reports the
\* rejection and goes on, depending on its version and flags.
ModuleInsertManyRejects(i) ==
  /\ running
  /\ variant = "module"
  /\ i \in 1..Len(pendingWrites)
  /\ pendingWrites' = RemoveAt(pendingWrites, i)
  /\ aliased' = RemoveAt(aliased, i)
  /\ flushLog' = Append(flushLog, "unhandled")
  /\ \/ /\ running' = FALSE
        /\ listening' = FALSE
        /\ exitCode' = Some(1)
     \/ UNCHANGED <<running, listening, exitCode>>
  /\ Quiet
  /\ UNCHANGED <<authVars, variant, armed, streamTimers,
                 now, locations, clients, streams,
                 nextSymbol, cleanupDue, logDue, indexLogDue, locations_db,
                 maxReported>>

\* the frame its streams push: the cached records have four properties
ModuleFrame(locs) ==
  "data: [" \o
  Join([i \in 1..Len(locs) |->
          "{" \o Join(JsonString("device_id", locs[i].device_id) \o
                      JsonNumber("latitude", locs[i].latitude) \o
                      JsonNumber("longitude", locs[i].longitude) \o
                      JsonNumber("timestamp", Some(locs[i].timestamp)) \o
                      JsonObjectId(locs[i]), ",")
              \o "}"], ",")
  \o "]\n\n"

\* its GET /events: the Symbol joins the clients set and a Readable is
\* returned, which the response writer starts to read
GetEventsModule ==
  /\ running
  /\ listening
  /\ variant = "module"
  /\ nextSymbol <= MaxLegacyStreams
  /\ clients' = Append(clients, nextSymbol)
  /\ streams' = [streams EXCEPT ![nextSymbol] = NewReadable]
  /\ streamTimers' = streamTimers \cup
                       {ReadCall(streamTimers, nextSymbol, now)}
  /\ nextSymbol' = nextSymbol + 1
  /\ reply' = StreamReply
  /\ pushed' = NothingPushed(streams)
  /\ lastUpsert' = NoUpsert
  /\ removedStale' = <<>>
  /\ request' = Undefined
  /\ detached' = <<>>
  /\ UNCHANGED <<authVars, variant, armed, listening, exitCode, now, running,
                 locations, cleanupDue, logDue, indexLogDue, pendingWrites,
                 aliased, locations_db, flushLog, maxReported>>

\* read() of that stream: every call arms one 3 s interval and registers one
\* 'close' listener
ReadModule(tm) ==
  /\ running
  /\ variant = "module"
  /\ tm \in streamTimers
  /\ tm.kind = "read"
  /\ streamTimers' = (streamTimers \ {tm}) \cup
       IF streams[tm.stream].status = "open"
       THEN {[stream |-> tm.stream, kind |-> "interval",
              due |-> now + modulePushIntervalMs, armed |-> now,
              n |-> FreshN(streamTimers, tm.stream, {"interval"}, now)]}
       ELSE {}
  /\ streams' = [streams EXCEPT ![tm.stream].listeners =
                   IF streams[tm.stream].status = "open"
                   THEN @ \cup {"close"} ELSE @]
  /\ Quiet
  /\ UNCHANGED <<authVars, variant, armed, listening, exitCode, now, running,
                 locations, clients, nextSymbol, cleanupDue, logDue,
                 indexLogDue, pendingWrites, aliased, locations_db, flushLog,
                 maxReported>>

\* the interval callback: the whole cache as one frame; the push makes the
\* stream call read() again
IntervalModule(tm) ==
  /\ running
  /\ variant = "module"
  /\ tm \in streamTimers
  /\ tm.kind = "interval"
  /\ tm.due = now
  /\ LET c == tm.stream
         next == [tm EXCEPT !.due = now + modulePushIntervalMs]
         again == ReadCall(streamTimers, c, now)
     IN  IF streams[c].status = "open"
         THEN /\ pushed' = [NothingPushed(streams) EXCEPT
                              ![c] = <<ModuleFrame(locations)>>]
              /\ streamTimers' = (streamTimers \ {tm}) \cup {next, again}
         ELSE /\ pushed' = NothingPushed(streams)
              /\ streamTimers' = (streamTimers \ {tm}) \cup {next}
  /\ reply' = NoReply
  /\ lastUpsert' = NoUpsert
  /\ removedStale' = <<>>
  /\ request' = Undefined
  /\ detached' = <<>>
  /\ UNCHANGED <<authVars, variant, armed, listening, exitCode, now, running,
                 locations, clients, streams, nextSymbol, cleanupDue, logDue,
                 indexLogDue, pendingWrites, aliased, locations_db, flushLog,
                 maxReported>>

\* a queued event of a destroyed stream is emitted.  The 'close' listeners
\* registered by read() clear their intervals and delete the Symbol from
\* the clients set.  The route registers no 'error' listener: an 'error' is
\* an uncaught exception, after which no 'close' is emitted.
CloseModule(c) ==
  /\ running
  /\ variant = "module"
  /\ streams[c].events # <<>>
  /\ LET e == Head(streams[c].events)
         heard == e \in streams[c].listeners
     IN  IF e = "error" /\ ~heard
         THEN /\ UncaughtException
              /\ detached' = <<>>
              /\ UNCHANGED <<clients, streams, streamTimers>>
         ELSE /\ clients' = IF heard THEN SelectSeq(clients, LAMBDA x : x # c)
                            ELSE clients
              /\ streamTimers' = IF heard
                                 THEN {x \in streamTimers : x.stream # c}
                                 ELSE {x \in streamTimers :
                                         x.stream # c \/ x.kind # "read"}
              /\ detached' = IF heard THEN Detached(clients, clients')
                             ELSE <<>>
              /\ streams' = [streams EXCEPT ![c].events = Tail(@)]
              /\ UNCHANGED <<running, listening, exitCode>>
  /\ reply' = NoReply
  /\ pushed' = NothingPushed(streams)
  /\ lastUpsert' = NoUpsert
  /\ removedStale' = <<>>
  /\ request' = Undefined
  /\ UNCHANGED <<authVars, variant, armed, now, locations, nextSymbol,
                 cleanupDue, logDue, indexLogDue, pendingWrites, aliased,
                 locations_db, flushLog, maxReported>>

\* the push periods of its streams that are followed
ModuleHorizon == 3 * modulePushIntervalMs

\* the clock moves on to the next expiry of a stream timer
TickModule ==
  /\ running
  /\ variant = "module"
  /\ now < ModuleHorizon
  /\ \A tm \in streamTimers : tm.due > now
  /\ now' = CHOOSE t \in {ModuleHorizon} \cup {tm.due : tm \in streamTimers} :
              \A u \in {ModuleHorizon} \cup {tm.due : tm \in streamTimers} :
                t <= u
  /\ Quiet
  /\ UNCHANGED <<authVars, variant, armed, listening, exitCode, streamTimers,
                 running, locations, clients, streams, nextSymbol, cleanupDue,
                 logDue, indexLogDue, pendingWrites, aliased, locations_db,
                 flushLog, maxReported>>

\* cleanup() called on the manager, the process going on
CallCleanup ==
  /\ running
  /\ LET r == Cleanup(clients, streams, armed) IN
     /\ clients' = r.clients
     /\ streams' = r.streams
     /\ armed' = r.armed
     /\ detached' = Detached(clients, r.clients)
  /\ reply' = Returned("cleanup")
  /\ pushed' = NothingPushed(streams)
  /\ lastUpsert' = NoUpsert
  /\ removedStale' = <<>>
  /\ request' = Undefined
  /\ UNCHANGED <<authVars, variant, listening, exitCode, streamTimers, now,
                 running, locations, nextSymbol, cleanupDue, logDue,
                 indexLogDue, pendingWrites, aliased, locations_db, flushLog,
                 maxReported>>

\* the expiries of the intervals that are armed
ArmedDues ==
  (IF "cleanupInterval" \in armed THEN {cleanupDue} ELSE {})
    \cup (IF "logInterval" \in armed THEN {logDue} ELSE {})
    \cup IndexDues

\* the clock moves on to the next expiry of an armed interval, and by one
\* reaper period when none is armed
TickArmed ==
  /\ running
  /\ now < MaxFlushes * logIntervalMs
  /\ \A due \in ArmedDues : now < due
  /\ now' = CHOOSE t \in ArmedDues \cup {now + cleanupIntervalMs} :
              \A u \in ArmedDues \cup {now + cleanupIntervalMs} : t <= u
  /\ Quiet
  /\ UNCHANGED <<authVars, variant, armed, listening, exitCode, streamTimers,
                 running, locations, clients, streams, nextSymbol, cleanupDue,
                 logDue, indexLogDue, pendingWrites, aliased, locations_db,
                 flushLog, maxReported>>

(* Accounts and sessions: /register, /login, /me and /logout of index.ts, *)
(* /auth/register, /auth/login and /auth/logout of users.ts               *)

Usernames == {"alice", "bob"}
Emails == {"a@ipick.io", "b@ipick.io"}
Passwords == {"pw1", "pw2"}

\* Bun.password.hash and Bun.password.verify
PasswordHash(password) == <<"hashed", password>>
PasswordVerify(password, hash) == hash = PasswordHash(password)

\* the ObjectId that insertOne gives the n-th document of users
ObjectIdOf(n) == IF n = 1 THEN "u1" ELSE IF n = 2 THEN "u2" ELSE "u3"

\* 7 * 24 * 60 * 60
SessionSeconds == 604800

\* jwt.sign({id, email, exp}): the HS256 token is a function of the payload,
\* and email and exp are functions of the user and of the second of the
\* call.  The specifications of the sessions cover one second, so that a
\* user is signed the same token by every login.
JwtSign(payload) == "tok-" \o payload.id

\* the replies of the auth routes; users.ts sets the status code, the
\* routes of index.ts answer 200 unless they set 401
StatusOf(v, code) == IF v = "nested" THEN code ELSE 200

AuthReply(v, code, kind, detail) ==
  [code |-> StatusOf(v, code), kind |-> kind, detail |-> detail]

\* collections read before dbconfig assigned them: users.ts tests them, the
\* handlers of index.ts throw a TypeError into their catch
NotReady(v, caught) ==
  IF v = "nested"
  THEN AuthReply(v, 500, "error", "Database connection not ready")
  ELSE AuthReply(v, 500, "error", caught)

LoginSuccessful(v, token) ==
  [code |-> 200, kind |-> "success", detail |-> "Login successful",
   token |-> token]

LogoutSuccessful == [code |-> 200, kind |-> "success",
                     detail |-> "Logout successful"]

\* a filter is a set of <<key, value>> pairs, one of which has to match
\* ({ key: value }, or $or of several)
Matches(doc, filter) == \E kv \in filter : doc[kv[1]] = kv[2]

\* collection.findOne(filter): the first matching document
FindOne(docs, filter) ==
  LET found == SelectSeq(docs, LAMBDA d : Matches(d, filter))
  IN  IF found = <<>> THEN Undefined ELSE Some(found[1])

\* collection.deleteOne(filter): the first matching document is removed
DeleteOne(docs, filter) ==
  IF \E i \in 1..Len(docs) : Matches(docs[i], filter)
  THEN RemoveAt(docs, CHOOSE i \in 1..Len(docs) :
                        /\ Matches(docs[i], filter)
                        /\ \A j \in 1..(i - 1) : ~Matches(docs[j], filter))
  ELSE docs

\* collection.deleteMany(filter)
DeleteMany(docs, filter) ==
  SelectSeq(docs, LAMBDA d : ~Matches(d, filter))

\* what every step of an auth route leaves alone
managerVars == <<variant, now, running, locations, clients, streams,
                 nextSymbol, cleanupDue, logDue, indexLogDue, pendingWrites,
                 aliased, locations_db, flushLog, listening, exitCode,
                 streamTimers, armed, maxReported>>

AuthAnswers(r, authorization) ==
  /\ reply' = r
  /\ request' = authorization
  /\ pushed' = NothingPushed(streams)
  /\ lastUpsert' = NoUpsert
  /\ removedStale' = <<>>
  /\ detached' = <<>>
  /\ UNCHANGED managerVars

LoginBodies == [username : Usernames, password : Passwords]

\* the servers whose index.ts registers /register, /login, /me and /logout
\* itself: part_000, part_001, the three index.ts of part_002 apart from the
\* first, and src/src/index.ts; the nested server uses the routes of users.ts
IndexServers == {"flat", "older", "early", "module", "legacy"}
Servers == IndexServers \cup {"nested"}

\* the refusals of /login: part_000 and users.ts say what failed, the other
\* servers answer both with the same words
LoginRefused(v, detail) ==
  IF v \in {"flat", "nested"} THEN detail ELSE "Invalid credentials"

\* POST /login up to its second await: findOne by username has settled and
\* Bun.password.verify is called with the password of the user found
LoginFind(i, body) ==
  /\ running
  /\ listening
  /\ variant \in Servers
  /\ calls[i] = NoCall
  /\ LET user == FindOne(users, {<<"username", body.username>>}) IN
     IF ~Connected
     THEN /\ AuthAnswers(NotReady(variant, "Login failed"), Undefined)
          /\ UNCHANGED calls
     ELSE IF user = Undefined
     THEN /\ AuthAnswers(AuthReply(variant, 400, "error",
                                   LoginRefused(variant,
                                                "Can't find that user")),
                         Undefined)
          /\ UNCHANGED calls
     ELSE /\ AuthAnswers(NoReply, Undefined)
          /\ calls' = [calls EXCEPT ![i] = [route |-> "login",
                                            pc |-> "verify",
                                            user |-> user[1],
                                            password |-> body.password]]
  /\ UNCHANGED <<users, activeSessions, otps, clientConnect, createIndex,
                 uniqueIndexes, otpVerified>>

\* Bun.password.verify has settled: the password is checked against the
\* hash that findOne returned, whatever users holds by now; a wrong one is
\* answered, else deleteMany is sent
LoginVerify(i) ==
  /\ running
  /\ calls[i] # NoCall
  /\ calls[i].route = "login"
  /\ calls[i].pc = "verify"
  /\ IF ~PasswordVerify(calls[i].password, calls[i].user.password)
     THEN /\ AuthAnswers(AuthReply(variant, 400, "error",
                                   LoginRefused(variant, "Wrong password")),
                         Undefined)
          /\ calls' = [calls EXCEPT ![i] = NoCall]
     ELSE /\ AuthAnswers(NoReply, Undefined)
          /\ calls' = [calls EXCEPT ![i] = [route |-> "login",
                                            pc |-> "deleteMany",
                                            user |-> calls[i].user]]
  /\ UNCHANGED <<users, activeSessions, otps, clientConnect, createIndex,
                 uniqueIndexes, otpVerified>>

\* await activeSessions.deleteMany({ user_id: user._id })
LoginDeleteMany(i) ==
  /\ running
  /\ calls[i] # NoCall
  /\ calls[i].route = "login"
  /\ calls[i].pc = "deleteMany"
  /\ activeSessions' = DeleteMany(activeSessions,
                                  {<<"user_id", calls[i].user._id>>})
  /\ calls' = [calls EXCEPT ![i].pc = "insertOne"]
  /\ AuthAnswers(NoReply, Undefined)
  /\ UNCHANGED <<users, otps, clientConnect, createIndex, uniqueIndexes,
                 otpVerified>>

\* jwt.sign, activeSessions.insertOne and the reply
LoginInsertOne(i) ==
  /\ running
  /\ calls[i] # NoCall
  /\ calls[i].route = "login"
  /\ calls[i].pc = "insertOne"
  /\ LET user == calls[i].user
         token == JwtSign([id |-> user._id, email |-> user.email,
                           exp |-> (now \div 1000) + SessionSeconds])
     IN  /\ activeSessions' = Append(activeSessions,
                                     [user_id |-> user._id, token |-> token])
         /\ AuthAnswers(LoginSuccessful(variant, token), Undefined)
  /\ calls' = [calls EXCEPT ![i] = NoCall]
  /\ UNCHANGED <<users, otps, clientConnect, createIndex, uniqueIndexes,
                 otpVerified>>

\* authHeader?.startsWith('Bearer ') and authHeader.split(' ')[1]
BearerToken(authorization) ==
  IF authorization = Undefined THEN Undefined
  ELSE IF Len(authorization[1]) < 2 \/ authorization[1][1] # "Bearer"
  THEN Undefined
  ELSE Some(authorization[1][2])

\* POST /logout: deleteOne({ token }) for any well-formed header
LogoutRoute(v, authorization, sessions, connected) ==
  IF v = "nested" /\ ~connected
  THEN [reply |-> NotReady(v, ""), activeSessions |-> sessions]
  ELSE IF BearerToken(authorization) = Undefined
  THEN [reply |-> AuthReply(v, 401, "error", "Unauthorized"),
        activeSessions |-> sessions]
  ELSE IF ~connected
  THEN [reply |-> [code |-> 500, kind |-> "error",
                   detail |-> "undefined is not an object"],
        activeSessions |-> sessions]
  ELSE [reply |-> LogoutSuccessful,
        activeSessions |-> DeleteOne(sessions,
                             {<<"token", BearerToken(authorization)[1]>>})]

Logout(authorization) ==
  /\ running
  /\ listening
  /\ variant \in Servers
  /\ LET r == LogoutRoute(variant, authorization, activeSessions, Connected)
     IN  /\ activeSessions' = r.activeSessions
         /\ AuthAnswers(r.reply, authorization)
  /\ UNCHANGED <<users, otps, calls, clientConnect, createIndex,
                 uniqueIndexes, otpVerified>>

MeUser(user) == [code |-> 200, kind |-> "user", detail |-> user._id]

MeUnauthorized == [code |-> 401, kind |-> "error", detail |-> "Unauthorized"]
MeInvalid ==
  [code |-> 401, kind |-> "error", detail |-> "Invalid or expired token"]
MeSessionExpired ==
  [code |-> 401, kind |-> "error", detail |-> "Session expired or invalid"]

\* GET /me of index.ts when no other step falls between its awaits: the
\* token must verify, have a session document and name a stored user
GetMeRoute(authorization, sessions, accounts) ==
  IF BearerToken(authorization) = Undefined
  THEN MeUnauthorized
  ELSE LET token == BearerToken(authorization)[1]
           payload == JwtVerify(token)
           session == FindOne(sessions, {<<"token", token>>})
       IN  IF payload = Undefined THEN MeInvalid
           ELSE IF session = Undefined THEN MeSessionExpired
           ELSE LET user == FindOne(accounts, {<<"_id", payload[1].id>>})
                IN  IF user = Undefined THEN MeInvalid
                    ELSE MeUser(user[1])

MeAnswers(i, r) ==
  /\ AuthAnswers(r, calls[i].authorization)
  /\ calls' = [calls EXCEPT ![i] = NoCall]

\* GET /me up to its first await: the header is checked and jwt.verify is
\* called
GetMe(i, authorization) ==
  /\ running
  /\ listening
  /\ variant \in IndexServers
  /\ calls[i] = NoCall
  /\ IF BearerToken(authorization) = Undefined
     THEN /\ AuthAnswers(MeUnauthorized, authorization)
          /\ UNCHANGED calls
     ELSE /\ AuthAnswers(NoReply, authorization)
          /\ calls' = [calls EXCEPT ![i] =
                         [route |-> "me", pc |-> "verify",
                          authorization |-> authorization,
                          token |-> BearerToken(authorization)[1],
                          payload |-> Undefined]]
  /\ UNCHANGED <<users, activeSessions, otps, clientConnect, createIndex,
                 uniqueIndexes, otpVerified>>

\* jwt.verify has settled: a token without payload is thrown into the catch,
\* and so is the TypeError of activeSessions.findOne while dbconfig has not
\* assigned the collection; else the session is asked for
GetMeVerified(i) ==
  /\ running
  /\ calls[i] # NoCall
  /\ calls[i].route = "me"
  /\ calls[i].pc = "verify"
  /\ IF JwtVerify(calls[i].token) = Undefined \/ ~Connected
     THEN MeAnswers(i, MeInvalid)
     ELSE /\ AuthAnswers(NoReply, calls[i].authorization)
          /\ calls' = [calls EXCEPT ![i].pc = "session",
                                    ![i].payload = JwtVerify(calls[i].token)]
  /\ UNCHANGED <<users, activeSessions, otps, clientConnect, createIndex,
                 uniqueIndexes, otpVerified>>

\* activeSessions.findOne({ token }) has settled
GetMeSession(i) ==
  /\ running
  /\ calls[i] # NoCall
  /\ calls[i].route = "me"
  /\ calls[i].pc = "session"
  /\ IF FindOne(activeSessions, {<<"token", calls[i].token>>}) = Undefined
     THEN MeAnswers(i, MeSessionExpired)
     ELSE /\ AuthAnswers(NoReply, calls[i].authorization)
          /\ calls' = [calls EXCEPT ![i].pc = "user"]
  /\ UNCHANGED <<users, activeSessions, otps, clientConnect, createIndex,
                 uniqueIndexes, otpVerified>>

\* users.findOne({ _id }) has settled and the caller is answered
GetMeUser(i) ==
  /\ running
  /\ calls[i] # NoCall
  /\ calls[i].route = "me"
  /\ calls[i].pc = "user"
  /\ LET user == FindOne(users, {<<"_id", calls[i].payload[1].id>>}) IN
     MeAnswers(i, IF user = Undefined THEN MeInvalid ELSE MeUser(user[1]))
  /\ UNCHANGED <<users, activeSessions, otps, clientConnect, createIndex,
                 uniqueIndexes, otpVerified>>

\* POST /location of the early index.ts: the body schema asks for two
\* numbers, the handler logs them and sends them back; nothing is stored
EarlyBodies == [latitude : LatitudeInputs, longitude : LongitudeInputs]

PostLocationEarlyRoute(body) ==
  IF body.latitude = Undefined THEN ValidationError("/latitude")
  ELSE IF body.longitude = Undefined THEN ValidationError("/longitude")
  ELSE [code |-> 200, kind |-> "success", detail |-> "Location received",
        latitude |-> body.latitude[1], longitude |-> body.longitude[1]]

PostLocationEarly(body) ==
  /\ running
  /\ listening
  /\ variant = "early"
  /\ AuthAnswers(PostLocationEarlyRoute(body), Undefined)
  /\ UNCHANGED authVars

TokensOf(sessions) == {sessions[i].token : i \in 1..Len(sessions)}
IdsOf(accounts) == {accounts[i]._id : i \in 1..Len(accounts)}

\* a server with the accounts of alice and bob stored, within one second
Alice == [_id |-> "u1", username |-> "alice", email |-> "a@ipick.io",
          password |-> PasswordHash("pw1")]
Bob == [_id |-> "u2", username |-> "bob", email |-> "b@ipick.io",
        password |-> PasswordHash("pw2")]

\* the module of the server has been evaluated
ServerConstructed ==
  IF variant \in {"early", "legacy"} THEN LegacyConstructed
  ELSE ManagerConstructed

InitSession ==
  /\ variant \in Servers
  /\ listening = TRUE
  /\ ServerConstructed
  /\ users = <<Alice, Bob>>
  /\ activeSessions = <<>>
  /\ otps = <<>>
  /\ calls = NoCalls
  /\ clientConnect = "resolved"
  /\ createIndex = CreateIndexAll("resolved")
  /\ uniqueIndexes = {"email", "username"}
  /\ otpVerified = {}

NextSession ==
  \/ \E i \in 1..MaxCalls : \E body \in LoginBodies : LoginFind(i, body)
  \/ \E i \in 1..MaxCalls : LoginVerify(i)
  \/ \E i \in 1..MaxCalls : LoginDeleteMany(i)
  \/ \E i \in 1..MaxCalls : LoginInsertOne(i)
  \/ \E authorization \in AuthorizationInputs : Logout(authorization)
  \/ \E i \in 1..MaxCalls : \E authorization \in AuthorizationInputs :
       GetMe(i, authorization)
  \/ \E i \in 1..MaxCalls : GetMeVerified(i)
  \/ \E i \in 1..MaxCalls : GetMeSession(i)
  \/ \E i \in 1..MaxCalls : GetMeUser(i)
  \/ \E body \in EarlyBodies : PostLocationEarly(body)

SpecSession == InitSession /\ [][NextSession]_vars

(* Registration and the unique indexes of the users collection *)

\* documents the users collection may hold in SpecRegister
MaxUsers == 2

RegisterBodies == [username : Usernames, email : Emails, password : {"pw1"}]

\* { projection: { password: 0 } }
WithoutPassword(found) ==
  IF found = Undefined THEN Undefined
  ELSE Some([_id |-> found[1]._id, username |-> found[1].username,
             email |-> found[1].email])

RegisteredSuccessfully(newUser) ==
  [code |-> 200, kind |-> "success",
   detail |-> "User registered successfully", user |-> newUser]

\* the message of a findOne that the driver rejects
FindOneRejected == "findOne rejected"

\* the write error of insertOne on a unique index
DuplicateKey == "E11000 duplicate key error collection: authdb.users"

\* dbconfig: client.connect() resolves, the collections are assigned and the
\* two createIndex calls are sent
DbConnects ==
  /\ running
  /\ clientConnect = "pending"
  /\ clientConnect' = "resolved"
  /\ createIndex' = CreateIndexAll("pending")
  /\ Quiet
  /\ UNCHANGED <<managerVars, users, activeSessions, otps, calls,
                 uniqueIndexes, otpVerified>>

\* a unique index is built if no two documents share its key
Buildable(accounts) ==
  {k \in IndexKeys :
     \A i, j \in 1..Len(accounts) :
       accounts[i][k] = accounts[j][k] => i = j}

\* the createIndex call for key k settles, each call in a turn of its own.
\* It resolves with the index built if no two documents share the key; once
\* both calls have resolved dbConnected resolves, and the server that waits
\* for it opens its port.  Otherwise the call rejects: Promise.all rejects
\* with it and the server that waits for dbConnected exits with status 1,
\* elsewhere the rejection is unhandled and the runtime exits or goes on.
CreateIndexSettles(k) ==
  /\ running
  /\ createIndex[k] = "pending"
  /\ IF k \in Buildable(users)
     THEN /\ createIndex' = [createIndex EXCEPT ![k] = "resolved"]
          /\ uniqueIndexes' = uniqueIndexes \cup {k}
          /\ listening' = (listening \/ createIndex' = CreateIndexAll("resolved"))
          /\ UNCHANGED <<running, exitCode>>
     ELSE /\ createIndex' = [createIndex EXCEPT ![k] = "rejected"]
          /\ UNCHANGED uniqueIndexes
          /\ \/ /\ running' = FALSE
                /\ listening' = FALSE
                /\ exitCode' = Some(1)
             \/ /\ variant # "nested"
                /\ UNCHANGED <<running, listening, exitCode>>
  /\ Quiet
  /\ UNCHANGED <<variant, now, locations, clients, streams, nextSymbol,
                 cleanupDue, logDue, indexLogDue, pendingWrites, aliased,
                 locations_db, flushLog, streamTimers, armed, maxReported,
                 users, activeSessions, otps, calls, otpVerified,
                 clientConnect>>

InFlight(route, pc) ==
  Cardinality({i \in 1..MaxCalls :
                 calls[i].route = route /\ calls[i].pc = pc})

\* POST /register up to its insertOne: findOne({ $or: [{ email }, { username }] })
RegisterFind(i, body) ==
  /\ running
  /\ listening
  /\ variant \in Servers
  /\ calls[i] = NoCall
  /\ Len(users) + InFlight("register", "insertOne") < MaxUsers
  /\ LET existingUser ==
           FindOne(users, {<<"email", body.email>>,
                           <<"username", body.username>>})
     IN  IF ~Connected
         THEN /\ AuthAnswers(NotReady(variant, "undefined is not an object"),
                             Undefined)
              /\ UNCHANGED calls
         ELSE IF existingUser # Undefined
         THEN /\ AuthAnswers(AuthReply(variant, 400, "error",
                                       "User already exists"), Undefined)
              /\ UNCHANGED calls
         ELSE /\ AuthAnswers(NoReply, Undefined)
              /\ calls' = [calls EXCEPT ![i] = [route |-> "register",
                                                pc |-> "insertOne",
                                                body |-> body]]
  /\ UNCHANGED <<users, activeSessions, otps, clientConnect, createIndex,
                 uniqueIndexes, otpVerified>>

\* users.insertOne(doc): refused if a unique index holds the key of doc
InsertOneUser(accounts, indexes, doc) ==
  IF \E i \in 1..Len(accounts) : \E k \in indexes :
       accounts[i][k] = doc[k]
  THEN [threw |-> TRUE, users |-> accounts]
  ELSE [threw |-> FALSE,
        users |-> Append(accounts,
                         [doc EXCEPT !._id = ObjectIdOf(Len(accounts) + 1)])]

\* Bun.password.hash and await users.insertOne: an error of insertOne is
\* caught and answered with its message; otherwise the document is stored
\* and the handler sends findOne({ _id: result.insertedId })
RegisterInsertOne(i) ==
  /\ running
  /\ calls[i] # NoCall
  /\ calls[i].route = "register"
  /\ calls[i].pc = "insertOne"
  /\ LET body == calls[i].body
         r == InsertOneUser(users, uniqueIndexes,
                            [_id |-> "", username |-> body.username,
                             email |-> body.email,
                             password |-> PasswordHash(body.password)])
     IN  /\ users' = r.users
         /\ IF r.threw
            THEN /\ AuthAnswers(AuthReply(variant, 500, "error", DuplicateKey),
                                Undefined)
                 /\ calls' = [calls EXCEPT ![i] = NoCall]
            ELSE /\ AuthAnswers(NoReply, Undefined)
                 /\ calls' = [calls EXCEPT ![i] =
                                [route |-> "register", pc |-> "findOne",
                                 insertedId |-> r.users[Len(r.users)]._id]]
  /\ UNCHANGED <<activeSessions, otps, clientConnect, createIndex,
                 uniqueIndexes, otpVerified>>

\* await users.findOne({ _id: result.insertedId }, { projection }) settles
\* and the handler answers: with the new user, or from its catch if findOne
\* rejected, while the document stays stored
RegisterFindNew(i) ==
  /\ running
  /\ calls[i] # NoCall
  /\ calls[i].route = "register"
  /\ calls[i].pc = "findOne"
  /\ \/ AuthAnswers(RegisteredSuccessfully(
                       WithoutPassword(
                         FindOne(users, {<<"_id", calls[i].insertedId>>}))),
                     Undefined)
     \/ AuthAnswers(AuthReply(variant, 500, "error", FindOneRejected),
                    Undefined)
  /\ calls' = [calls EXCEPT ![i] = NoCall]
  /\ UNCHANGED <<users, activeSessions, otps, clientConnect, createIndex,
                 uniqueIndexes, otpVerified>>

\* a server started on a database that is empty, with or without the
\* indexes of an earlier start; the nested server listens once dbConnected
\* has resolved, the others as soon as their module is evaluated
InitRegister ==
  /\ variant \in Servers
  /\ listening = (variant # "nested")
  /\ ServerConstructed
  /\ users = <<>>
  /\ activeSessions = <<>>
  /\ otps = <<>>
  /\ calls = NoCalls
  /\ clientConnect = "pending"
  /\ createIndex = CreateIndexAll("unsent")
  /\ uniqueIndexes \in {{}, IndexKeys}
  /\ otpVerified = {}

(* The /forgot-password group of index.ts *)

ResetEmails == {"a@ipick.io", "b@ipick.io", ""}

\* Math.floor(100000 + Math.random() * 900000).toString()
OtpValues == {"111111", "222222"}

OtpInputs == OtpValues \cup {""}
NewPasswords == {"pw2", ""}

\* otps.set(email, otp) and otps.get(email)
OtpsSet(m, email, otp) ==
  IF \E i \in 1..Len(m) : m[i].email = email
  THEN [i \in 1..Len(m) |->
          IF m[i].email = email THEN [email |-> email, otp |-> otp]
          ELSE m[i]]
  ELSE Append(m, [email |-> email, otp |-> otp])

OtpsGet(m, email) ==
  LET found == SelectSeq(m, LAMBDA e : e.email = email)
  IN  IF found = <<>> THEN Undefined ELSE Some(found[1].otp)

Plain(kind, detail) == [code |-> 200, kind |-> kind, detail |-> detail]

\* users.findOne / users.updateOne before dbconfig has assigned users: the
\* handler has no try/catch, the framework answers the TypeError with 500
UsersUndefined ==
  [code |-> 500, kind |-> "error", detail |-> "undefined is not an object"]

\* POST /forgot-password/check-email
CheckEmail(email) ==
  /\ running
  /\ listening
  /\ variant \in {"flat", "nested"}
  /\ AuthAnswers(IF ~Connected THEN UsersUndefined
                 ELSE IF FindOne(users, {<<"email", email>>}) = Undefined
                 THEN Plain("error", "User not found")
                 ELSE Plain("success", "Valid Email, Proceed to Step 2"),
                 Undefined)
  /\ UNCHANGED authVars

\* POST /forgot-password/send-otp up to its await: the otp is stored, then
\* transporter.sendMail is called
SendOtp(i, email, otp) ==
  /\ running
  /\ listening
  /\ variant \in {"flat", "nested"}
  /\ calls[i] = NoCall
  /\ IF email = ""
     THEN /\ AuthAnswers(Plain("success:false", "Email is required"),
                         Undefined)
          /\ UNCHANGED <<otps, otpVerified, calls>>
     ELSE /\ otps' = OtpsSet(otps, email, otp)
          /\ otpVerified' = otpVerified \ {email}
          /\ calls' = [calls EXCEPT ![i] = [route |-> "send-otp",
                                            pc |-> "sendMail"]]
          /\ AuthAnswers(NoReply, Undefined)
  /\ UNCHANGED <<users, activeSessions, clientConnect, createIndex,
                 uniqueIndexes>>

\* await transporter.sendMail(...) settles: the handler answers; the otp
\* stays stored if the mail could not be sent
SendMailSettles(i, sent) ==
  /\ running
  /\ calls[i] # NoCall
  /\ calls[i].route = "send-otp"
  /\ calls[i].pc = "sendMail"
  /\ calls' = [calls EXCEPT ![i] = NoCall]
  /\ AuthAnswers(IF sent THEN Plain("success", "OTP sent successfully")
                 ELSE Plain("success", "Failed to send OTP"), Undefined)
  /\ UNCHANGED <<users, activeSessions, otps, clientConnect, createIndex,
                 uniqueIndexes, otpVerified>>

\* POST /forgot-password/verify-otp: the reply for the body
VerifyOtpRoute(m, email, otp) ==
  IF email = "" \/ otp = ""
  THEN Plain("success:false", "Email and OTP are required")
  ELSE IF Some(otp) # OtpsGet(m, email)
  THEN Plain("success:false", "Invalid OTP")
  ELSE Plain("success", "OTP verified successfully")

\* the handler changes nothing; otpVerified records what it accepted
VerifyOtp(email, otp) ==
  /\ running
  /\ listening
  /\ variant \in {"flat", "nested"}
  /\ AuthAnswers(VerifyOtpRoute(otps, email, otp), Undefined)
  /\ otpVerified' =
       IF VerifyOtpRoute(otps, email, otp).kind = "success"
       THEN otpVerified \cup {email} ELSE otpVerified
  /\ UNCHANGED <<users, activeSessions, otps, calls, clientConnect,
                 createIndex, uniqueIndexes>>

\* users.updateOne(filter, { $set: { password } }): the first match
UpdateOnePassword(accounts, filter, hash) ==
  IF \E i \in 1..Len(accounts) : Matches(accounts[i], filter)
  THEN LET first == CHOOSE i \in 1..Len(accounts) :
                      /\ Matches(accounts[i], filter)
                      /\ \A j \in 1..(i - 1) : ~Matches(accounts[j], filter)
       IN  [accounts EXCEPT ![first].password = hash]
  ELSE accounts

\* POST /forgot-password/reset-password; connected: dbconfig has assigned
\* users
ResetPasswordRoute(accounts, email, password, connected) ==
  IF email = "" \/ password = ""
  THEN [reply |-> Plain("success:false", "Email and password are required"),
        users |-> accounts]
  ELSE IF ~connected
  THEN [reply |-> UsersUndefined, users |-> accounts]
  ELSE [reply |-> Plain("success", "Password reset successfully"),
        users |-> UpdateOnePassword(accounts, {<<"email", email>>},
                                    PasswordHash(password))]

ResetPassword(email, password) ==
  /\ running
  /\ listening
  /\ variant \in {"flat", "nested"}
  /\ LET r == ResetPasswordRoute(users, email, password, Connected) IN
     /\ users' = r.users
     /\ AuthAnswers(r.reply, Undefined)
  /\ UNCHANGED <<activeSessions, otps, calls, clientConnect, createIndex,
                 uniqueIndexes, otpVerified>>

\* the server of InitRegister: registrations and the forgot-password routes
\* that read or write users, while dbconfig connects
NextRegister ==
  \/ DbConnects
  \/ \E k \in IndexKeys : CreateIndexSettles(k)
  \/ \E i \in 1..MaxCalls : \E body \in RegisterBodies : RegisterFind(i, body)
  \/ \E i \in 1..MaxCalls : RegisterInsertOne(i)
  \/ \E i \in 1..MaxCalls : RegisterFindNew(i)
  \/ \E email \in ResetEmails : CheckEmail(email)
  \/ \E email \in ResetEmails : \E password \in NewPasswords :
       ResetPassword(email, password)

SpecRegister == InitRegister /\ [][NextRegister]_vars

\* POST /change-password of index.ts and POST /auth/change-password of
\* users.ts, asked for the account of bob and for a username nobody has
ChangePasswordBodies ==
  [username : {"bob", "carol"}, old_password : Passwords,
   new_password : Passwords]

\* the route up to its second await: findOne by username has settled and
\* Bun.password.verify is called with the password of the user found
ChangePasswordFind(i, body) ==
  /\ running
  /\ listening
  /\ variant \in {"flat", "nested"}
  /\ calls[i] = NoCall
  /\ LET user == FindOne(users, {<<"username", body.username>>}) IN
     IF ~Connected
     THEN /\ AuthAnswers(NotReady(variant, "Password change failed"),
                         Undefined)
          /\ UNCHANGED calls
     ELSE IF user = Undefined
     THEN /\ AuthAnswers(AuthReply(variant, 400, "error", "User not found"),
                         Undefined)
          /\ UNCHANGED calls
     ELSE /\ AuthAnswers(NoReply, Undefined)
          /\ calls' = [calls EXCEPT ![i] =
                         [route |-> "change-password", pc |-> "verify",
                          username |-> body.username,
                          hash |-> user[1].password,
                          old_password |-> body.old_password,
                          new_password |-> body.new_password]]
  /\ UNCHANGED <<users, activeSessions, otps, clientConnect, createIndex,
                 uniqueIndexes, otpVerified>>

\* Bun.password.verify has settled: the old password is checked against the
\* hash that findOne returned, whatever users holds by now; a wrong one is
\* answered, else the new password is hashed and updateOne is sent
ChangePasswordVerify(i) ==
  /\ running
  /\ calls[i] # NoCall
  /\ calls[i].route = "change-password"
  /\ calls[i].pc = "verify"
  /\ IF ~PasswordVerify(calls[i].old_password, calls[i].hash)
     THEN /\ AuthAnswers(AuthReply(variant, 400, "error",
                                   "Invalid old password"), Undefined)
          /\ calls' = [calls EXCEPT ![i] = NoCall]
     ELSE /\ AuthAnswers(NoReply, Undefined)
          /\ calls' = [calls EXCEPT ![i] =
                         [route |-> "change-password", pc |-> "updateOne",
                          username |-> calls[i].username,
                          password |-> PasswordHash(calls[i].new_password)]]
  /\ UNCHANGED <<users, activeSessions, otps, clientConnect, createIndex,
                 uniqueIndexes, otpVerified>>

\* await users.updateOne({ username }, { $set: { password } }) and the reply
ChangePasswordUpdateOne(i) ==
  /\ running
  /\ calls[i] # NoCall
  /\ calls[i].route = "change-password"
  /\ calls[i].pc = "updateOne"
  /\ users' = UpdateOnePassword(users, {<<"username", calls[i].username>>},
                                calls[i].password)
  /\ calls' = [calls EXCEPT ![i] = NoCall]
  /\ AuthAnswers(AuthReply(variant, 200, "success",
                           "Password changed successfully"), Undefined)
  /\ UNCHANGED <<activeSessions, otps, clientConnect, createIndex,
                 uniqueIndexes, otpVerified>>

NextReset ==
  \/ \E i \in 1..MaxCalls : \E body \in ChangePasswordBodies :
       ChangePasswordFind(i, body)
  \/ \E i \in 1..MaxCalls : ChangePasswordVerify(i)
  \/ \E i \in 1..MaxCalls : ChangePasswordUpdateOne(i)
  \/ \E email \in ResetEmails : CheckEmail(email)
  \/ \E i \in 1..MaxCalls : \E email \in ResetEmails : \E otp \in OtpValues :
       SendOtp(i, email, otp)
  \/ \E i \in 1..MaxCalls : \E sent \in BOOLEAN : SendMailSettles(i, sent)
  \/ \E email \in ResetEmails : \E otp \in OtpInputs : VerifyOtp(email, otp)
  \/ \E email \in ResetEmails : \E password \in NewPasswords :
       ResetPassword(email, password)

\* part_000 and part_002 with users.ts have these routes
InitReset == InitSession /\ variant \in {"flat", "nested"}

SpecReset == InitReset /\ [][NextReset]_vars

Ingest ==
  \/ \E body \in FlatBodies : PostLocationFlat(body)
  \/ \E body \in NestedBodies : PostLocationNested(body)

\* well-formed reports of one device
IngestOne ==
  \/ \E body \in {b \in FlatBodies :
                    b.device_id = Some("bus-12") /\ ~FalsyNumber(b.latitude)
                    /\ ~FalsyNumber(b.longitude)} :
       PostLocationFlat(body)
  \/ \E body \in {b \in NestedBodies :
                    /\ b.device_info # Undefined /\ b.gps_data # Undefined
                    /\ b.device_info[1].device_id = Some("bus-12")
                    /\ ~FalsyNumber(b.gps_data[1].latitude)
                    /\ ~FalsyNumber(b.gps_data[1].longitude)} :
       PostLocationNested(body)

Hub ==
  \/ GetEvents
  \/ \E c \in ClientIds : ClientCloses(c)
  \/ \E c \in ClientIds : EmitEvent(c)
  \/ \E c \in ClientIds : SinkFails(c)

Flusher ==
  \/ LogTimer
  \/ IndexLogTimer
  \/ \E i \in 1..MaxFlushes : InsertManyPrepares(i)
  \/ \E i \in 1..MaxFlushes : InsertManyResolves(i)
  \/ \E i \in 1..MaxFlushes : InsertManyRejects(i)

\* subscribers that Spec attaches
MaxWatchers == 1

\* the server from its start to Horizon, which ends before the first flush,
\* with at most MaxWatchers subscribers
Next ==
  \/ Ingest
  \/ nextSymbol <= MaxWatchers /\ GetEvents
  \/ \E c \in ClientIds : ClientCloses(c)
  \/ \E c \in ClientIds : EmitEvent(c)
  \/ \E c \in ClientIds : SinkFails(c)
  \/ CleanupTimer
  \/ Tick
  \/ Shutdown

Spec == Init /\ [][Next]_vars

\* the server at one instant with up to MaxClients subscribers: reports come
\* in while subscribers attach, fail and leave
NextHub ==
  \/ Ingest
  \/ Hub
  \/ Shutdown

SpecHub == Init /\ [][NextHub]_vars

\* the exported class driven through its public methods instead of the
\* POST /location route, with the reports of one device
NextApi ==
  \/ \E d \in ApiReports(now) : CallUpdateLocation(d)
  \/ \E c \in ClientIds : CallRemoveClient(c)
  \/ Hub
  \/ CleanupTimer
  \/ Tick
  \/ Shutdown

InitApi == Init /\ variant = "flat"

SpecApi == InitApi /\ [][NextApi]_vars

\* the server over MaxFlushes flush periods, observed at the timer expiries,
\* with one reporting device and no subscriber; the flat server may still be
\* connecting to the database
NextFlush ==
  \/ IngestOne
  \/ CleanupTimer
  \/ Flusher
  \/ DbConnects
  \/ \E k \in IndexKeys : CreateIndexSettles(k)
  \/ ConnectRejects
  \/ TickToTimer
  \/ Shutdown

SpecFlush == Init /\ [][NextFlush]_vars

\* the same report in the nested shape
NestedShape(flat, telemetry) ==
  [device_info |-> Some([device_id |-> flat.device_id,
                         body_number |-> flat.body_number,
                         device_name |-> flat.device_name]),
   gps_data |-> Some([latitude |-> flat.latitude,
                      longitude |-> flat.longitude,
                      telemetry |-> telemetry])]

Canonical(d) ==
  [device_id |-> d.device_id, latitude |-> d.latitude,
   longitude |-> d.longitude, device_name |-> d.device_name,
   body_number |-> d.body_number, timestamp |-> d.timestamp]

\* flat bodies with a device id and both coordinates, none of them falsy
FlatBodiesComplete ==
  {b \in FlatBodies : /\ ~FalsyString(b.device_id) /\ ~FalsyNumber(b.latitude)
                       /\ ~FalsyNumber(b.longitude)}

\* POST /location of the deployed variant on a body of any shape
DeployedRoute(body) ==
  IF variant = "flat"
  THEN PostLocationFlatRoute(FlatView(body), now, locations, clients, streams)
  ELSE PostLocationNestedRoute(NestedView(body), now, locations, clients,
                               streams)

\* a complete report in the flat and in the nested shape
EitherShape ==
  FlatBodiesComplete
    \cup {NestedShape(f, t) : f \in FlatBodiesComplete, t \in TelemetryInputs}

\* POST /location of the deployed server with a body of either shape
PostLocationEitherShape(body) ==
  /\ running
  /\ listening
  /\ variant \in {"flat", "nested"}
  /\ Handled(DeployedRoute(body))

\* both servers sent complete reports of either shape up to Horizon
NextShapes ==
  \/ \E body \in EitherShape : PostLocationEitherShape(body)
  \/ CleanupTimer
  \/ Tick

SpecShapes == Init /\ [][NextShapes]_vars

\* well-formed reports of every device, in the flat shape
IngestFlat ==
  \E body \in {b \in FlatBodies :
                 /\ ~FalsyString(b.device_id) /\ ~FalsyNumber(b.latitude)
                 /\ ~FalsyNumber(b.longitude)} :
    PostLocationFlat(body)

\* the running server without an end of time: devices report or stay silent
\* and subscribers come and go as they like, while the clock advances, the
\* reaper and the flush intervals fire and queued stream events are
\* delivered.  Reports are followed up to the first write of the flusher;
\* the clock, the timers and the streams are followed beyond it.
NextLive ==
  \/ WritesIssued = 0 /\ IngestFlat
  \/ GetEvents
  \/ \E c \in ClientIds : ClientCloses(c)
  \/ \E c \in ClientIds : EmitEvent(c)
  \/ CleanupTimer
  \/ Flusher
  \/ TickLive
  \/ Shutdown

InitLive == Init /\ variant = "flat"

\* Time does not stop: what is asked of the long run is asked of the runs in
\* which the clock keeps advancing, not of those that end with the process
\* or where the clock is no longer followed.
SpecLive ==
  /\ InitLive
  /\ [][NextLive]_vars
  /\ []<><<TickLive>>_vars
  /\ WF_vars(TickLive)
  /\ WF_vars(CleanupTimer)
  /\ WF_vars(LogTimer)
  /\ \A c \in ClientIds : WF_vars(EmitEvent(c))

\* well-formed reports of one device, in the nested shape
IngestNested ==
  \E body \in {b \in NestedBodies :
                 /\ b.device_info # Undefined /\ b.gps_data # Undefined
                 /\ b.device_info[1].device_id = Some("bus-12")
                 /\ ~FalsyNumber(b.gps_data[1].latitude)
                 /\ ~FalsyNumber(b.gps_data[1].longitude)} :
    PostLocationNested(body)

\* the nested server from the evaluation of its module, with the database
\* connection still pending, over MaxFlushes flush periods
NextStart ==
  \/ DbConnects
  \/ \E k \in IndexKeys : CreateIndexSettles(k)
  \/ ConnectRejects
  \/ IngestNested
  \/ GetEvents
  \/ CleanupTimer
  \/ Flusher
  \/ TickToTimer
  \/ Shutdown

InitStart ==
  /\ variant = "nested"
  /\ listening = FALSE
  /\ Constructed

SpecStart == InitStart /\ [][NextStart]_vars

\* the manager with its timers over MaxFlushes flush periods, with cleanup()
\* called by the signal handlers (followed by process.exit) or on its own
NextStop ==
  \/ \E d \in {r \in ApiReports(now) : r.timestamp = now} :
       CallUpdateLocation(d)
  \/ GetEvents
  \/ CallCleanup
  \/ CleanupTimer
  \/ Flusher
  \/ TickArmed
  \/ Shutdown

SpecStop == InitApi /\ [][NextStop]_vars

\* the server with the module-level cache over MaxFlushes flush periods,
\* with no subscriber
NextModule ==
  \/ \E body \in LegacyBodies : PostLocationModule(body)
  \/ ModuleCleanupTimer
  \/ ModuleLogTimer
  \/ \E i \in 1..MaxFlushes : InsertManyPrepares(i)
  \/ \E i \in 1..MaxFlushes : InsertManyResolves(i)
  \/ \E i \in 1..MaxFlushes : ModuleInsertManyRejects(i)
  \/ TickToTimer

InitModule ==
  /\ variant = "module"
  /\ Loaded

SpecModule == InitModule /\ [][NextModule]_vars

\* the server with the module-level cache and its subscribers
NextModuleHub ==
  \/ \E body \in LegacyBodies : PostLocationModule(body)
  \/ GetEventsModule
  \/ \E tm \in streamTimers : ReadModule(tm)
  \/ \E tm \in streamTimers : IntervalModule(tm)
  \/ \E c \in ClientIds : ClientCloses(c)
  \/ \E c \in ClientIds : CloseModule(c)
  \/ TickModule

SpecModuleHub == InitModule /\ [][NextModuleHub]_vars

\* the reaper and the flusher of the manager over MaxFlushes flush periods,
\* with the 10 s and with the 30 s threshold
NextOnce ==
  \/ \E body \in {b \in FlatBodies :
                    b.device_id = Some("bus-12") /\ ~FalsyNumber(b.latitude)
                    /\ ~FalsyNumber(b.longitude)} :
       PostLocationFlat(body)
  \/ \E body \in {b \in LegacyBodies :
                    ~FalsyString(b.device_id) /\ ~FalsyNumber(b.latitude)
                    /\ ~FalsyNumber(b.longitude)} :
       PostLocationOlder(body)
  \/ variant = "flat" /\ CleanupTimer
  \/ OlderCleanupTimer
  \/ Flusher
  \/ TickToTimer

InitOnce ==
  /\ variant \in {"flat", "older"}
  /\ Loaded

SpecOnce == InitOnce /\ [][NextOnce]_vars

\* the flusher with a database that takes up the writes in the order in
\* which they were issued
FlusherInOrder ==
  \/ LogTimer
  \/ IndexLogTimer
  \/ InsertManyPrepares(1)
  \/ InsertManyResolves(1)
  \/ InsertManyRejects(1)

\* the manager with at most MaxWatchers subscribers, its reaper and its
\* flusher over MaxFlushes flush periods
NextReap ==
  \/ \E body \in {b \in FlatBodies :
                    /\ b.device_id = Some("bus-12")
                    /\ ~FalsyNumber(b.latitude) /\ ~FalsyNumber(b.longitude)
                    /\ b.device_name # Undefined
                    /\ b.body_number # Undefined} :
       PostLocationFlat(body)
  \/ nextSymbol <= MaxWatchers /\ GetEvents
  \/ \E c \in ClientIds : ClientCloses(c)
  \/ \E c \in ClientIds : EmitEvent(c)
  \/ \E c \in ClientIds : SinkFails(c)
  \/ CleanupTimer
  \/ FlusherInOrder
  \/ TickToTimer

SpecReap == InitApi /\ [][NextReap]_vars

\* both servers taking every body of FlatBodies and NestedBodies, with at
\* most MaxWatchers subscribers
NextZero ==
  \/ Ingest
  \/ nextSymbol <= MaxWatchers /\ GetEvents
  \/ \E c \in ClientIds : ClientCloses(c)
  \/ \E c \in ClientIds : EmitEvent(c)
  \/ CleanupTimer
  \/ Tick

SpecZero == Init /\ [][NextZero]_vars

\* the SSEManager-based server called with and without credentials
NextAuth ==
  \/ \E authorization \in AuthorizationInputs : GetEventsAs(authorization)
  \/ IngestOne
  \/ \E c \in ClientIds : ClientCloses(c)
  \/ \E c \in ClientIds : EmitEvent(c)

SpecAuth == Init /\ [][NextAuth]_vars

\* the legacy server: its SSEManager-less GET /events and POST /location
NextLegacy ==
  \/ \E i \in 1..MaxCalls, body \in LegacyBodies : PostLocationLegacy(i, body)
  \/ \E i \in 1..MaxCalls : UpdateOneLegacy(i)
  \/ \E i \in 1..MaxCalls : PostLocationLegacyResumes(i)
  \/ GetEventsLegacy
  \/ \E tm \in streamTimers : ReadLegacy(tm)
  \/ \E tm \in streamTimers : IntervalLegacy(tm)
  \/ \E tm \in streamTimers : FindLegacy(tm)
  \/ \E tm \in streamTimers : FindRejectsLegacy(tm)
  \/ \E tm \in streamTimers : ForEachLegacy(tm)
  \/ \E tm \in streamTimers : TimeoutLegacy(tm)
  \/ \E c \in ClientIds : ClientCloses(c)
  \/ \E c \in ClientIds : EmitEvent(c)
  \/ TickLegacy

InitLegacy ==
  /\ variant = "legacy"
  /\ listening = TRUE
  /\ LegacyConstructed
  /\ DatabaseEmpty \/ DatabaseConnected

SpecLegacy == InitLegacy /\ [][NextLegacy]_vars

\* one reporting device and subscribers whose consumers may stop reading;
\* reports are followed until one stream holds more than MaxBuffered frames
NextBuffer ==
  \/ (\A c \in ClientIds : streams[c].buffered <= MaxBuffered) /\ IngestOne
  \/ GetEvents
  \/ \E c \in ClientIds : ConsumerStalls(c)
  \/ \E c \in ClientIds : ConsumerReads(c)
  \/ \E c \in ClientIds : ClientCloses(c)
  \/ \E c \in ClientIds : EmitEvent(c)

SpecBuffer == Init /\ [][NextBuffer]_vars

----------------------------------------------------------------------------
(* Properties *)

\* the report and the replaced timestamp of the step's updateLocation call
UpsertReport == lastUpsert.report[1]
UpsertReplaced == lastUpsert.replaced[1]

\* C1: last-write-wins per device.  When updateLocation(r2) follows an
\* updateLocation(r1) of the same device whose entry is still cached and
\* r2.timestamp > r1.timestamp, the cache holds exactly one entry for the
\* device and that entry is r2.
C1_LastWriteWins ==
  (/\ lastUpsert.called
   /\ lastUpsert.replaced # Undefined
   /\ UpsertReplaced < UpsertReport.timestamp)
  => EntriesFor(locations, UpsertReport.device_id) = <<UpsertReport>>

\* a later report of a device replaced its cached entry while another
\* device is cached too
C1_Witness ==
  /\ lastUpsert.called
  /\ lastUpsert.replaced # Undefined
  /\ UpsertReplaced < UpsertReport.timestamp
  /\ Len(locations) = 2
  /\ EntriesFor(locations, UpsertReport.device_id) = <<UpsertReport>>

\* C2 (as claimed): the cache holds at most one entry per device_id and the
\* entry's timestamp is the greatest among the reports passed to
\* updateLocation for the device since its last eviction, in whatever order
\* the reports arrive.
C2_GreatestTimestampCached ==
  /\ Cardinality(DeviceSet(locations)) = Len(locations)
  /\ \A i \in 1..Len(locations) :
       locations[i].timestamp = maxReported[locations[i].device_id]

\* updateLocation was handed a report older than the entry it replaced
C2_Witness ==
  /\ lastUpsert.called
  /\ lastUpsert.replaced # Undefined
  /\ UpsertReport.timestamp < UpsertReplaced
  /\ EntriesFor(locations, UpsertReport.device_id) = <<UpsertReport>>

\* bodies in which latitude or longitude is absent
FlatBodiesMissingCoordinate ==
  {b \in FlatBodies : b.latitude = Undefined \/ b.longitude = Undefined}

NestedBodiesMissingCoordinate ==
  {b \in NestedBodies :
     \/ b.gps_data = Undefined
     \/ /\ b.device_info # Undefined
        /\ b.gps_data[1].latitude = Undefined
           \/ b.gps_data[1].longitude = Undefined}

\* r is a rejection that touched nothing, and again is the answer to the
\* same request sent once more
Rejected(r, again) ==
  /\ r.reply.kind \in {"error", "validation"}
  /\ ~r.upsert.called
  /\ r.locations = locations
  /\ r.clients = clients
  /\ r.streams = streams
  /\ r.pushed = NothingPushed(streams)
  /\ again.reply = r.reply

\* C3: a report with latitude or longitude missing is rejected: in every
\* reachable state the route (schema, then handler) and the handler on its
\* own answer it with an error result, leave the cache and the subscribers
\* as they are, push no frame, and answer the same report sent again with
\* the same error.
C3_MissingCoordinateRejected ==
  /\ \A b \in FlatBodiesMissingCoordinate :
       LET r == PostLocationFlatRoute(b, now, locations, clients, streams)
           h == PostLocationFlatHandler(b, now, locations, clients, streams)
       IN  /\ Rejected(r, PostLocationFlatRoute(b, now, r.locations,
                                                r.clients, r.streams))
           /\ Rejected(h, PostLocationFlatHandler(b, now, h.locations,
                                                  h.clients, h.streams))
  /\ \A b \in NestedBodiesMissingCoordinate :
       LET r == PostLocationNestedRoute(b, now, locations, clients, streams)
           h == PostLocationNestedHandler(b, now, locations, clients, streams)
       IN  /\ Rejected(r, PostLocationNestedRoute(b, now, r.locations,
                                                  r.clients, r.streams))
           /\ Rejected(h, PostLocationNestedHandler(b, now, h.locations,
                                                    h.clients, h.streams))
  /\ reply.kind \in {"error", "validation"}
       => ~lastUpsert.called /\ pushed = NothingPushed(streams)

\* a POST /location without latitude was just refused while a device is
\* cached and a subscriber is listening
C3_Witness ==
  /\ reply \in {ValidationError("/latitude"),
                ValidationError("/gps_data/latitude")}
  /\ ~lastUpsert.called
  /\ locations # <<>>
  /\ \E c \in Range(clients) : streams[c].status = "open"
  /\ pushed = NothingPushed(streams)

\* the reaper run of this step, and the time of the latest reaper run
ReaperRan == cleanupDue' # cleanupDue
LastReaperRun == cleanupDue' - cleanupIntervalMs

\* C4: after any run of the reaper no entry whose age (now - timestamp)
\* exceeded the staleness threshold at that run remains in the cache, and
\* every later payload of broadcastLocations is the serialisation of a cache
\* that holds no such entry.
C4_ReaperEvictsStale ==
  [][/\ ReaperRan =>
          \A i \in 1..Len(locations') :
            now - locations'[i].timestamp <= staleTimeout
     /\ (lastUpsert'.called /\ cleanupDue > cleanupIntervalMs) =>
          /\ \A i \in 1..Len(locations') :
               LastReaperRun - locations'[i].timestamp <= staleTimeout
          /\ \A c \in ClientIds : \A k \in 1..Len(pushed'[c]) :
               pushed'[c][k] = BroadcastMessage(locations')]_vars

\* the reaper has just removed one device and kept another
C4_Witness ==
  /\ removedStale # <<>>
  /\ locations # <<>>
  /\ \A i \in 1..Len(locations) :
       (cleanupDue - cleanupIntervalMs) - locations[i].timestamp <= staleTimeout

\* C5 (as claimed): a device that reported once at t0 is absent from the cache
\* at every time >= t0 + 11 s.
C5_AbsentAfter11s ==
  \A i \in 1..Len(locations) : now - locations[i].timestamp < 11000

\* C5 (amended): a device that reported once at t0 is absent from the cache
\* once the reaper tick due at most 20 s after t0 has run: no cached entry
\* is older than threshold plus interval, and one of exactly that age is
\* removed by the tick that is due at that instant.
C5_AbsentAfterTwoIntervals ==
  \A i \in 1..Len(locations) :
    /\ now - locations[i].timestamp <= staleTimeout + cleanupIntervalMs
    /\ now - locations[i].timestamp = staleTimeout + cleanupIntervalMs
         => cleanupDue = now

\* an entry is still cached 20 s after its only report
C5_Witness ==
  \E i \in 1..Len(locations) :
    /\ now - locations[i].timestamp = staleTimeout + cleanupIntervalMs
    /\ maxReported[locations[i].device_id] = locations[i].timestamp

\* c is attached and its stream takes a push, before the step
LiveBefore(c) ==
  /\ c \in Range(clients)
  /\ streams[c].status # "destroyed"
  /\ ~streams[c].throws

\* C6 (as claimed): every accepted updateLocation pushes exactly one frame,
\* the serialisation of the cache right after the upsert, to every attached
\* stream that is not destroyed.
C6_EveryUndestroyedStreamReceives ==
  [][lastUpsert'.called =>
       \A c \in Range(clients) :
         streams[c].status # "destroyed"
           => pushed'[c] = <<BroadcastMessage(locations')>>]_vars

\* C6 (amended): every accepted updateLocation pushes exactly one frame, the
\* serialisation of the cache right after the upsert, to every attached
\* stream that is not destroyed and whose push does not throw, and nothing
\* to any other stream; so the frames of the remaining subscribers do not
\* depend on which other subscribers were removed before.
C6_EveryLiveStreamReceives ==
  [][lastUpsert'.called =>
       \A c \in ClientIds :
         pushed'[c] = IF LiveBefore(c) THEN <<BroadcastMessage(locations')>>
                      ELSE <<>>]_vars

\* two subscribers have just received the same frame
C6_Witness ==
  /\ lastUpsert.called
  /\ Len(clients) = 2
  /\ pushed[clients[1]] = <<BroadcastMessage(locations)>>
  /\ pushed[clients[2]] = pushed[clients[1]]

\* C7: when the reports of two distinct devices are ingested, in either
\* order, the accepted report adds its device to the devices cached before
\* it, the cache holds one entry per device, and a subscriber attached before
\* receives one frame listing exactly those entries: the broadcast of the
\* second report contains both devices.
C7_BroadcastHoldsEveryDeviceOnce ==
  [][lastUpsert'.called =>
       /\ DeviceSet(locations') =
            DeviceSet(locations) \cup {lastUpsert'.report[1].device_id}
       /\ Cardinality(DeviceSet(locations')) = Len(locations')
       /\ \A c \in ClientIds :
            LiveBefore(c) =>
              /\ Len(pushed'[c]) = 1
              /\ pushed'[c][1] =
                   "data: " \o JsonStringify(locations') \o "\n\n"]_vars

\* the subscriber attached first has just received the frame of the second
\* of two devices that reported at the same instant, bus-7 before bus-12
C7_Witness ==
  /\ lastUpsert.called
  /\ clients # <<>>
  /\ pushed[1] = << "data: [{\"device_id\":\"bus-7\",\"latitude\":14,"
                   \o "\"longitude\":121,\"device_name\":\"Bus\","
                   \o "\"body_number\":\"B-1\",\"timestamp\":0},"
                   \o "{\"device_id\":\"bus-12\",\"latitude\":14,"
                   \o "\"longitude\":121,\"device_name\":\"Bus\","
                   \o "\"body_number\":\"B-1\",\"timestamp\":0}]\n\n" >>

\* C8: a flush whose insertMany fails leaves the cache as it was and leaves
\* the flush timer and the process running, so the next flush runs and can
\* succeed; no step of the flusher (timer tick, write in progress, resolved
\* write, rejected write) removes or changes a cache entry.
C8_FlushFailureIsolated ==
  [][/\ (logDue' # logDue \/ pendingWrites' # pendingWrites
          \/ flushLog' # flushLog \/ locations_db' # locations_db)
        => locations' = locations
     /\ flushLog' # flushLog
        => /\ running' = running
           /\ logDue' = logDue
           /\ cleanupDue' = cleanupDue]_vars

\* the flush failed after the driver had prepared its documents: the write
\* is gone and the cached entry of the device, reported once and not since,
\* now carries an _id
C8_Witness ==
  /\ flushLog = <<"error">>
  /\ pendingWrites = <<>>
  /\ locations_db = <<>>
  /\ \E k \in 1..Len(locations) : "_id" \in DOMAIN locations[k]

\* C9: in a publish pass every subscriber whose stream is destroyed or whose
\* push throws is removed within the pass, and every other attached
\* subscriber keeps its place and receives the frame, wherever the failed
\* subscriber stands in the iteration order.
C9_FailedSubscriberRemovedOthersServed ==
  [][lastUpsert'.called =>
       /\ clients' = SelectSeq(clients, LAMBDA c :
                        streams[c].status # "destroyed" /\ ~streams[c].throws)
       /\ \A c \in Range(clients) :
            IF streams[c].status # "destroyed" /\ ~streams[c].throws
            THEN /\ pushed'[c] # <<>>
                 /\ streams'[c] = streams[c]
            ELSE /\ pushed'[c] = <<>>
                 /\ streams'[c].status = "destroyed"
                 /\ c \in Range(detached')]_vars

\* the pass removed a subscriber that stood before one that received the
\* frame
C9_Witness ==
  /\ lastUpsert.called
  /\ detached # <<>>
  /\ clients # <<>>
  /\ detached[1] < clients[1]
  /\ pushed[clients[1]] = <<BroadcastMessage(locations)>>

\* C10: removeClient is idempotent.  Called for an id that is not in the
\* clients map (never attached, removed before, or closed by itself) it
\* raises nothing and changes neither the subscribers nor the cache; called
\* twice it leaves what the first call left.
C10_RemoveClientIdempotent ==
  [][/\ \A c \in ClientIds :
          LET once == RemoveClient(clients, streams, c)
              twice == RemoveClient(once.clients, once.streams, c)
          IN  /\ ~once.threw
              /\ ~twice.threw
              /\ twice.clients = once.clients
              /\ twice.streams = once.streams
              /\ c \notin Range(clients)
                   => once.clients = clients /\ once.streams = streams
     /\ \A c \in ClientIds :
          (\/ streams[c].status = "none"
           \/ streams[c].status = "destroyed" /\ streams[c].events = <<>>)
            => c \notin Range(clients)
     /\ reply'.detail = "removeClient"
          => /\ reply' = Returned("removeClient")
             /\ locations' = locations
             /\ detached' = <<>> => clients' = clients /\ streams' = streams]_vars

\* removeClient has just returned without removing anything, every stream
\* handed out is closed and a device is cached
C10_Witness ==
  /\ reply = Returned("removeClient")
  /\ detached = <<>>
  /\ clients = <<>>
  /\ \A c \in ClientIds : streams[c].status = "destroyed"
  /\ locations # <<>>


(* C11: a detached subscription is closed for good *)

\* C11: once a subscription's stream is destroyed (the client closed it, it
\* ended or errored, a delivery to it failed, or the server shut down) no
\* later step pushes a frame to it and it stays destroyed; and once its key
\* has left the clients map the key never enters the map again
C11_DetachedStaysClosed ==
  [][\A c \in ClientIds :
       /\ streams[c].status = "destroyed"
            => pushed'[c] = <<>> /\ streams'[c].status = "destroyed"
       /\ (c \notin Range(clients) /\ streams[c].status # "none")
            => c \notin Range(clients')]_vars

\* a publish pass has just served one subscriber while another one, detached
\* earlier, got nothing
C11_Witness ==
  /\ lastUpsert.called
  /\ \E c, o \in ClientIds :
       /\ streams[c].status = "destroyed"
       /\ c \notin Range(clients)
       /\ pushed[c] = <<>>
       /\ o \in Range(clients)
       /\ pushed[o] # <<>>

(* C12: what a subscriber that does not consume makes the publisher hold *)

\* C12: the number of frames buffered for one subscriber stays within a
\* fixed bound (here MaxBuffered), whatever the number of accepted reports
C12_BufferedBelowBound ==
  \A c \in ClientIds : streams[c].buffered <= MaxBuffered

\* a report has just been answered 200 while a subscriber that does not read
\* holds every frame pushed since it stopped
C12_Witness ==
  /\ reply = LocationReceived
  /\ \E c \in ClientIds :
       /\ c \in Range(clients)
       /\ ~streams[c].flowing
       /\ pushed[c] # <<>>
       /\ streams[c].buffered = MaxBuffered

(* C13: what subscribers see of a device that stopped reporting *)

\* C13: after the reaper has evicted a device, every subscriber that stays
\* attached eventually receives a frame that does not hold the device
\* (unless the device reports again)
C13_EvictedDeviceDisappears ==
  \A c \in ClientIds : \A d \in CacheKeys :
    (/\ d \in Range(removedStale)
     /\ c \in Range(clients)
     /\ streams[c].status = "open")
      ~> \/ pushed[c] # <<>> /\ ~MapHas(locations, d)
         \/ c \notin Range(clients)
         \/ MapHas(locations, d)

\* the case in which subscribers do learn of the eviction: another device
\* reported afterwards, and the frame of that report lacks the evicted one
C13_Witness ==
  /\ lastUpsert.called
  /\ \E c \in ClientIds : \E d \in CacheKeys :
       /\ pushed[c] # <<>>
       /\ maxReported[d] = Unreported
       /\ ~MapHas(locations, d)
       /\ nextSymbol > 1
       /\ now > staleTimeout

(* C14: what may end an open subscription stream *)

\* C14: an open subscription stream leaves the open state only by being
\* destroyed, and only because the client closed it (its 'close' is queued),
\* a delivery to it failed, or the server shut down; no timer of the server
\* ends it
C14_OnlyCloseFailureOrShutdownEnds ==
  [][\A c \in ClientIds :
       (streams[c].status = "open" /\ streams'[c].status # "open")
         => /\ streams'[c].status = "destroyed"
            /\ \/ streams'[c].events # <<>>
               \/ streams[c].throws
               \/ ~running']_vars

\* a stream that the legacy server's timeout has ended while its client was
\* still there
C14_Witness ==
  /\ variant = "legacy"
  /\ \E c \in ClientIds :
       /\ streams[c].status = "ended"
       /\ streams[c].events = <<>>
       /\ now = legacyEndTimeoutMs

(* C15: the two shapes of a report *)

\* C15 as stated: the ingestion boundary of a server accepts a report in
\* the flat and in the nested shape, with the same canonical record
C15_BothShapesAccepted ==
  \A f \in FlatBodiesComplete : \A t \in TelemetryInputs :
    LET rf == DeployedRoute(f)
        rn == DeployedRoute(NestedShape(f, t))
    IN  /\ rf.reply = LocationReceived
        /\ rn.reply = LocationReceived
        /\ Canonical(rf.upsert.report[1]) = Canonical(rn.upsert.report[1])

\* the server has refused a complete report because of its shape: the flat
\* route found no device_id at the top level of a nested body, or the
\* nested route no device_info in a flat one
C15_Witness ==
  /\ \/ variant = "flat" /\ reply = ValidationError("/device_id")
     \/ variant = "nested" /\ reply = ValidationError("/device_info")
  /\ ~lastUpsert.called
  /\ locations = <<>>

(* C16: reports without a device id *)

\* C16: no cache key is the empty string, and no report whose device_id is
\* absent or empty is answered with success and handed to updateLocation
C16_EmptyDeviceIdRejected ==
  /\ Some("") \notin DeviceSet(locations)
  /\ lastUpsert.called => ~FalsyString(lastUpsert.report[1].device_id)

\* the nested server has answered success to a report whose device_id is ""
\* and the cache holds an entry under that key
C16_Witness ==
  /\ variant = "nested"
  /\ reply = LocationReceived
  /\ lastUpsert.called
  /\ lastUpsert.report[1].device_id = Some("")
  /\ MapHas(locations, Some(""))

(* C17: who may attach to the live feed *)

\* C17: a request that is answered with the subscription stream carried a
\* bearer credential that isAuthenticated accepts
C17_AttachNeedsSession ==
  reply = StreamReply
    => IsAuthenticated(request, ActiveSessionTokens, UserIds).code # 401

\* a caller without an Authorization header has been handed the stream and
\* is in the subscriber map
C17_Witness ==
  /\ reply = StreamReply
  /\ request = Undefined
  /\ IsAuthenticated(request, ActiveSessionTokens, UserIds) = Unauthorized401
  /\ clients # <<>>
  /\ streams[clients[Len(clients)]].status = "open"

(* C18: a database connection that fails at startup *)

\* nothing has been accepted, stored or written
NothingAccepted ==
  /\ locations = <<>>
  /\ clients = <<>>
  /\ nextSymbol = 1
  /\ pendingWrites = <<>>
  /\ locations_db = <<>>
  /\ flushLog = <<>>

\* C18 as stated: when the start has failed, the server never listened, no
\* report was accepted and no reaper or flusher timer has run
C18_FailedStartRunsNoTimer ==
  exitCode = Some(1)
    => /\ ~listening
       /\ NothingAccepted
       /\ cleanupDue = cleanupIntervalMs
       /\ logDue = logIntervalMs

\* C18: while the connection is pending and after it has failed the server
\* does not listen and has accepted no report and no subscription, so the
\* timers of the manager, which are armed when the module is evaluated and
\* may fire meanwhile, find an empty cache, evict nothing and write nothing;
\* the failed start ends the process with status 1; and whatever has been
\* accepted was accepted after the connection succeeded
C18_FailedStartAcceptsNothing ==
  /\ exitCode = Some(1) => ~running /\ ~listening /\ NothingAccepted
  /\ (running /\ ~listening) => NothingAccepted /\ exitCode = Undefined
  /\ (running /\ ~listening) => removedStale = <<>> /\ reply = NoReply
  /\ ~NothingAccepted => listening \/ exitCode = Some(0)

\* the connection has failed after the reaper timer had fired
C18_Witness ==
  /\ exitCode = Some(1)
  /\ ~running
  /\ cleanupDue > cleanupIntervalMs

(* C19: after cleanup() *)

\* C19: cleanup(), on its own or in the signal handlers, leaves no interval
\* armed, the subscriber map empty and every stream handed out destroyed;
\* after it no reaper tick and no flusher tick runs again (no eviction, no
\* expiry of a flush interval, no new write) and no interval is armed
\* again; after the process has exited nothing changes
C19_NothingRunsAfterCleanup ==
  [][/\ (reply' = Returned("cleanup") \/ (running /\ ~running'))
          => /\ armed' = {}
             /\ clients' = <<>>
             /\ \A c \in ClientIds :
                  /\ streams'[c].status \in {"none", "destroyed"}
                  /\ streams'[c].listeners = {}
     /\ armed' \subseteq armed
     /\ "cleanupInterval" \notin armed
          => /\ cleanupDue' = cleanupDue
             /\ removedStale' = <<>>
             /\ \A i \in 1..Len(locations) :
                  MapHas(locations', locations[i].device_id)
     /\ "logInterval" \notin armed
          => /\ logDue' = logDue
             /\ indexLogDue' = indexLogDue
             /\ Len(pendingWrites') <= Len(pendingWrites)
     /\ ~running => vars' = vars]_vars

\* the manager was cleaned up before the first flush and the process went
\* on: its own two intervals are cleared, the subscribers are gone, and
\* the interval of index.ts has since fired twice
C19_Witness ==
  /\ running
  /\ armed = {"indexInterval"}
  /\ clients = <<>>
  /\ \E c \in ClientIds : streams[c].status = "destroyed"
  /\ logDue = logIntervalMs
  /\ indexLogDue = logDue + logIntervalMs + logIntervalMs

(* C20: a durable write that fails, in every flusher *)

\* C20: no rejected write of a flusher escapes as an unhandled rejection,
\* and none ends the process
C20_FlushFailureCaught ==
  /\ "unhandled" \notin Range(flushLog)
  /\ exitCode # Some(1)

\* the module-level flusher's write was rejected and the process has
\* exited with status 1 while the cache held a report
C20_Witness ==
  /\ variant = "module"
  /\ flushLog # <<>>
  /\ flushLog[Len(flushLog)] = "unhandled"
  /\ ~running
  /\ exitCode = Some(1)
  /\ locations # <<>>


\* C21: a failure of a subscriber during the publish of an accepted report
\* never reaches the ingesting caller: in every state of the server with the
\* module-level clients set, a report that passes the checks of POST
\* /location is stored and answered with the success message, whatever
\* subscribers are attached.
C21_ValidReportAcknowledged ==
  \A body \in LegacyBodies :
    LET r == PostLocationModuleRoute(body, now, locations, clients) IN
    (/\ LegacyBodySchema(body) = Undefined
     /\ ~FalsyString(body.device_id)
     /\ ~FalsyNumber(body.latitude)
     /\ ~FalsyNumber(body.longitude))
      => /\ r.reply = LocationReceived
         /\ MapHas(r.locations, body.device_id)

\* a report was stored and answered with status 500 while a subscriber was
\* attached
C21_Witness ==
  /\ reply = InternalServerError
  /\ clients # <<>>
  /\ locations # <<>>
  /\ locations[Len(locations)].timestamp = now


\* the document as the handler built it
WithoutId(d) == [f \in DOMAIN d \ {"_id"} |-> d[f]]

WithoutIds(batch) == [k \in 1..Len(batch) |-> WithoutId(batch[k])]

RECURSIVE Flatten(_)
Flatten(batches) ==
  IF batches = <<>> THEN <<>> ELSE Head(batches) \o Flatten(Tail(batches))

WrittenReports ==
  LET docs == locations_db \o Flatten(pendingWrites) IN
  [i \in 1..Len(docs) |-> <<docs[i].device_id, docs[i].timestamp>>]

\* C23: persistence is at most once per report, with the reaper every 10 s,
\* the threshold of 10 s or 30 s and the flush every 60 s.  Every report of
\* the batch a tick issues was accepted after the previous tick, so it is
\* in no earlier batch, stored, pending or failed; a settled insertMany,
\* failed or not, issues no further write; and no report occurs twice in
\* the stored and pending batches.
C23_AtMostOncePerReport ==
  [][/\ logDue' # logDue
          => \A i \in 1..Len(locations) :
               /\ locations[i].timestamp > now - logIntervalMs
               /\ locations[i].timestamp <= now
     /\ flushLog' # flushLog
          => /\ Len(pendingWrites') = Len(pendingWrites) - 1
             /\ logDue' = logDue
     /\ \A i, j \in 1..Len(WrittenReports') :
          WrittenReports'[i] = WrittenReports'[j] => i = j]_vars

\* the first batch failed and the second one was stored, with a report of
\* the same device that is newer than the first tick
C23_Witness ==
  /\ Len(flushLog) = 2
  /\ flushLog[1] = "error"
  /\ flushLog[2] = "stored"
  /\ variant = "older"
  /\ Len(locations_db) = 1
  /\ locations_db[1].device_id = Some("bus-12")
  /\ locations_db[1].timestamp > logIntervalMs


\* C24: one run of the reaper evicts exactly the entries whose age exceeds
\* the threshold: the entries of age at most the threshold, that age
\* included, stay as they are and in their order; the run changes no
\* subscriber and no stream and delivers nothing.  No step of the flusher
\* (tick, resolved or rejected write) changes a subscriber or a stream.
C24_ReaperEvictsOnlyStale ==
  [][/\ ReaperRan
          => /\ locations' = SelectSeq(locations, LAMBDA d :
                                now - d.timestamp <= staleTimeout)
             /\ clients' = clients
             /\ streams' = streams
             /\ pushed' = NothingPushed(streams)
             /\ detached' = <<>>
     /\ (logDue' # logDue \/ flushLog' # flushLog)
          => /\ clients' = clients
             /\ streams' = streams
             /\ pushed' = NothingPushed(streams)]_vars

\* the reaper has just run with a subscriber attached and has kept an entry
\* whose age is the threshold
C24_Witness ==
  /\ cleanupDue = now + cleanupIntervalMs
  /\ clients # <<>>
  /\ \E i \in 1..Len(locations) : now - locations[i].timestamp = staleTimeout


\* C25: attaching delivers nothing: the step that attaches a subscriber
\* pushes no frame to any stream, and a stream receives a frame only in a
\* step that accepts a report and only if it was attached before that step.
\* A subscriber attached to a non-empty cache therefore receives nothing
\* for as long as no report is accepted.
C25_AttachDeliversNothing ==
  [][/\ nextSymbol' # nextSymbol => pushed' = NothingPushed(streams)
     /\ \A c \in ClientIds :
          pushed'[c] # <<>>
            => /\ lastUpsert'.called
               /\ c \in Range(clients)
               /\ pushed'[c] = <<BroadcastMessage(locations')>>]_vars

\* a subscriber has just been attached to a cache that holds an entry and
\* has received nothing
C25_Witness ==
  /\ reply = StreamReply
  /\ locations # <<>>
  /\ clients # <<>>
  /\ \A c \in ClientIds : pushed[c] = <<>>


\* C26: the ingestion handlers treat a latitude or longitude of 0 like an
\* absent one: the result for a body with a coordinate of 0 is the result
\* for the same body without that coordinate, which is the 'Missing GPS
\* data' error with the cache, the subscribers and the streams as they were
\* and nothing pushed; a report with both coordinates non-zero and a
\* non-empty device_id is stored and answered with success.
C26_ZeroCoordinateIsMissing ==
  /\ \A body \in FlatBodies :
       LET h(b) == PostLocationFlatHandler(b, now, locations, clients, streams)
       IN  /\ body.latitude = Some(0)
                => h(body) = h([body EXCEPT !.latitude = Undefined])
           /\ body.longitude = Some(0)
                => h(body) = h([body EXCEPT !.longitude = Undefined])
           /\ (body.latitude = Some(0) \/ body.longitude = Some(0))
                => h(body) = NoResult(MissingGpsData, locations, clients,
                                      streams)
           /\ (/\ ~FalsyNumber(body.latitude) /\ ~FalsyNumber(body.longitude)
               /\ ~FalsyString(body.device_id))
                => /\ h(body).reply = LocationReceived
                   /\ h(body).upsert.called
                   /\ MapHas(h(body).locations, body.device_id)
  /\ \A body \in {b \in NestedBodies :
                    b.device_info # Undefined /\ b.gps_data # Undefined} :
       LET h(b) == PostLocationNestedHandler(b, now, locations, clients,
                                             streams)
           gps == body.gps_data[1]
       IN  /\ gps.latitude = Some(0)
                => h(body) = h([body EXCEPT !.gps_data =
                                  Some([gps EXCEPT !.latitude = Undefined])])
           /\ gps.longitude = Some(0)
                => h(body) = h([body EXCEPT !.gps_data =
                                  Some([gps EXCEPT !.longitude = Undefined])])
           /\ (gps.latitude = Some(0) \/ gps.longitude = Some(0))
                => h(body) = NoResult(MissingGpsData, locations, clients,
                                      streams)
           /\ (/\ ~FalsyNumber(gps.latitude) /\ ~FalsyNumber(gps.longitude)
               /\ ~FalsyString(body.device_info[1].device_id))
                => /\ h(body).reply = LocationReceived
                   /\ h(body).upsert.called
                   /\ MapHas(h(body).locations, body.device_info[1].device_id)

\* a report was refused with 'Missing GPS data' while the cache held an
\* entry and a subscriber was attached: nothing was stored or pushed
C26_Witness ==
  /\ reply = MissingGpsData
  /\ ~lastUpsert.called
  /\ locations # <<>>
  /\ clients # <<>>
  /\ \A c \in ClientIds : pushed[c] = <<>>


\* C27: in every reachable state a user has at most one active session,
\* logins of the same user that interleave at their awaits included.
C27_OneSessionPerUser ==
  \A u \in IdsOf(users) :
    Cardinality({i \in 1..Len(activeSessions) :
                   activeSessions[i].user_id = u}) <= 1

\* two logins of alice have both answered and left a session each
C27_Witness ==
  /\ calls = NoCalls
  /\ Len(SelectSeq(activeSessions, LAMBDA s : s.user_id = "u1")) = 2
  /\ reply = LoginSuccessful(variant, "tok-u1")

\* C28: the step in which a logout with token T succeeds leaves no session
\* that carries T, and GET /me and isAuthenticated then answer 401 to T;
\* in every state a token that no session document carries is answered
\* 401 by both, whether or not its signature verifies.
C28_LogoutRevokesToken ==
  [][/\ (reply' = LogoutSuccessful /\ activeSessions' # activeSessions)
          => LET T == BearerToken(request')[1] IN
             /\ T \notin TokensOf(activeSessions')
             /\ GetMeRoute(request', activeSessions', users').code = 401
             /\ IsAuthenticated(request', TokensOf(activeSessions'),
                                IdsOf(users')) = Unauthorized401
     /\ \A authorization \in AuthorizationInputs :
          (/\ BearerToken(authorization) # Undefined
           /\ BearerToken(authorization)[1] \notin TokensOf(activeSessions'))
            => /\ GetMeRoute(authorization, activeSessions', users').code = 401
               /\ IsAuthenticated(authorization, TokensOf(activeSessions'),
                                  IdsOf(users')) = Unauthorized401]_vars

\* alice has logged out with her token and a session document still
\* carries it, so that GET /me answers the token with her account
C28_Witness ==
  /\ reply = LogoutSuccessful
  /\ request = Some(<<"Bearer", "tok-u1">>)
  /\ "tok-u1" \in TokensOf(activeSessions)
  /\ GetMeRoute(request, activeSessions, users) = MeUser(Alice)
  /\ calls = NoCalls


\* C29: no two stored users share a username or an email, registrations
\* that run concurrently and both pass the findOne check included.
C29_UsernamesAndEmailsUnique ==
  \A i, j \in 1..Len(users) :
    (\/ users[i].username = users[j].username
     \/ users[i].email = users[j].email) => i = j

\* two registrations of the same username have both been stored, and the
\* index on username could not be built
C29_Witness ==
  /\ Len(users) = 2
  /\ users[1].username = users[2].username
  /\ users[1].email # users[2].email
  /\ createIndex["username"] = "rejected"
  /\ "username" \notin uniqueIndexes
  /\ running


\* C30: /reset-password changes the password of an email only if the otp
\* stored for that email was accepted by /verify-otp before; a reset for
\* an email with no verified otp leaves the stored password as it is.
C30_ResetNeedsVerifiedOtp ==
  [][\A i \in 1..Len(users) :
       (/\ reply' = Plain("success", "Password reset successfully")
        /\ users'[i].password # users[i].password)
         => users[i].email \in otpVerified]_vars

\* the password of alice has just been reset while no otp is stored or
\* verified for her email
C30_Witness ==
  /\ reply = Plain("success", "Password reset successfully")
  /\ OtpsGet(otps, "a@ipick.io") = Undefined
  /\ otpVerified = {}
  /\ users[1].email = "a@ipick.io"
  /\ users[1].password = PasswordHash("pw2")

====
